---- MODULE Spec2Model ----
(***************************************************************************)
(* mcctl: instance lifecycle, service-state reconciliation and the flat   *)
(* KEY=VALUE properties store, modelled from src/src/mcctl.                *)
(*                                                                         *)
(* Text is modelled as sequences of one-character strings; a text file is  *)
(* the sequence of its lines (every line newline-terminated, as            *)
(* set_properties writes them).                                            *)
(***************************************************************************)
EXTENDS Integers, Sequences, FiniteSets, TLC

VARIABLES
    dirs,       \* instances/<name>: the instance directories on disk
    jars,       \* jars/: the content of the file of each tag, NoJar if none
    units,      \* the init system's unit of every instance name
    inv,        \* the running (or last finished) mcctl invocation and its arguments
    pc,         \* position of the invocation inside its handler
    loc,        \* local variables of the handler
    result,     \* how the last invocation ended: "ok" or the exception raised
    events,     \* what the invocation did so far, in order
    snap,       \* dirs as they were when the invocation started
    prev,       \* the instance whose plain stop succeeded just before this invocation, or "-"
    pfile,      \* content of the properties file handed to set_properties
    pupd,       \* the update dict of the last set_properties call, or NoUpdate
    cred,       \* the process's credentials and its open run_as blocks
    plugins     \* instances/<name>/plugins: the files in it

hostvars == <<dirs, jars, units, inv, pc, loc, result, events, snap, prev, cred,
              plugins>>

propvars == <<pfile, pupd>>

vars == <<dirs, jars, units, inv, pc, loc, result, events, snap, prev, pfile, pupd, cred,
          plugins>>

\* ------------------------------------------------------------------------
\* Bounds of the properties-store exploration
\* ------------------------------------------------------------------------
MaxLineLen == 2
MaxLines == 2

\* Temporary copies an instance directory may hold when configure starts
\* (a configure that fails half-way leaves its copies behind).
MaxTmp == 0

\* Polls of one set_status call that are told apart; the loop itself keeps
\* no count, and further polls are counted as MaxPolls.
MaxPolls == 2

\* Depth to which run_as blocks are nested.
MaxDepth == 2

\* Polls of one mc_exec call that are told apart; the loop counts its
\* retries, not its rounds, and further rounds are counted as MaxExecPolls.
MaxExecPolls == 26

\* Longest component (type, version, build) of the type ids explored.
MaxPartLen == 3

Chars == {"A", "B", "="}
EQ == "="

\* All character strings of length at most n.
StrUpTo(n) == UNION {[1..k -> Chars] : k \in 0..n}

Range(s) == {s[i] : i \in DOMAIN s}

\* ------------------------------------------------------------------------
\* Properties store (config.py)
\* ------------------------------------------------------------------------
\* A path holds no file, or a text file with its lines.
NoFile == [exists |-> FALSE, lines |-> <<>>]

File(lines) == [exists |-> TRUE, lines |-> lines]

\* Index of the first "=" of a line, 0 when the line has none.
FirstEq(line) ==
    IF \E i \in 1..Len(line) : line[i] = EQ
    THEN CHOOSE i \in 1..Len(line) :
            line[i] = EQ /\ \A j \in 1..(i - 1) : line[j] # EQ
    ELSE 0

\* A dict is a sequence of <<key, value>> pairs with distinct keys, in
\* insertion order (Python dicts keep insertion order).
DictKeys(d) == {d[i][1] : i \in 1..Len(d)}

DictGet(d, k) == (CHOOSE i \in 1..Len(d) : d[i][1] = k)

DictVal(d, k) == d[DictGet(d, k)][2]

\* property_dict[key] = value
DictSet(d, k, v) ==
    IF k \in DictKeys(d)
    THEN [d EXCEPT ![DictGet(d, k)] = <<k, v>>]
    ELSE Append(d, <<k, v>>)

\* old_config.update(properties)
RECURSIVE DictUpdate(_, _)
DictUpdate(d, u) ==
    IF u = <<>> THEN d
    ELSE DictUpdate(DictSet(d, Head(u)[1], Head(u)[2]), Tail(u))

RECURSIVE properties_to_dict(_)
properties_to_dict(property_list) ==
    IF property_list = <<>> THEN <<>>
    ELSE LET n == Len(property_list)
             line == property_list[n]
             rest == properties_to_dict(SubSeq(property_list, 1, n - 1))
             e == FirstEq(line)
         IN IF e = 0 THEN rest
            ELSE DictSet(rest, SubSeq(line, 1, e - 1),
                         SubSeq(line, e + 1, Len(line)))

\* config_file.read().splitlines()
get_properties(file) == properties_to_dict(file.lines)

\* f"{key}={value}\n"
FormatLine(kv) == kv[1] \o <<EQ>> \o kv[2]

\* Writes the update alone, without reading the old file.
set_properties_overwrite(file, properties) ==
    File([i \in 1..Len(properties) |-> FormatLine(properties[i])])

\* Appends the update's lines to the file instead of merging them.
set_properties_append(file, properties) ==
    LET touched == IF file.exists THEN file ELSE File(<<>>)
    IN File(touched.lines \o [i \in 1..Len(properties) |-> FormatLine(properties[i])])

set_properties(file, properties) ==
    LET touched == IF file.exists THEN file ELSE File(<<>>)
        old_config == DictUpdate(get_properties(touched), properties)
    IN File([i \in 1..Len(old_config) |-> FormatLine(old_config[i])])

\* ------------------------------------------------------------------------
\* The host: instance directories, jar cache, init-system units
\* ------------------------------------------------------------------------
Names == {"mc1", "mc2"}

\* Type ids the operator may ask for, and the tag the download source
\* resolves them to.
Sources == {"vanilla:latest", "vanilla:1"}

ResolveTag(source) == "vanilla:1"

NoJar == "none"

\* The tags get_jar_path is asked for: the resolved ones and, when resolving
\* failed, the source as typed.
Tags == {"vanilla:0", "vanilla:1", "vanilla:latest"}

NoJars == [t \in Tags |-> NoJar]

\* A cache holding complete files for the tags ts.
Cached(ts) == [t \in Tags |-> IF t \in ts THEN "jarA" ELSE NoJar]

\* instances/<name>: the server.jar symlink (the cached tag it points to),
\* eula.txt ("none" when missing, else the value of its eula= line),
\* server.properties, the environment file, and configure's temporary copies.
NoDir ==
    [exists |-> FALSE, jar |-> NoJar, eula |-> "none",
     props |-> NoFile, env |-> NoFile, tmp |-> {}]

EmptyDir == [NoDir EXCEPT !.exists = TRUE]

\* instances/<name>/plugins: whether the folder is there, and the names of
\* the files in it.
NoPlugins == [exists |-> FALSE, files |-> {}]

\* What the server binary writes on its first launch: eula.txt with
\* eula=false and a commented default server.properties.
GeneratedProps == File(<< <<"#">>, <<"A", "=", "A">> >>)

MEM == <<"M", "E", "M">>

\* The unit mcserver@<name>.service as pystemd shows it.
NoUnit == [ActiveState |-> "inactive", enabled |-> FALSE, job |-> "none"]

\* systemd's SubState of a service unit in each ActiveState.
SubState(unit) ==
    CASE unit.ActiveState = "active" -> "running"
      [] unit.ActiveState = "inactive" -> "dead"
      [] unit.ActiveState = "activating" -> "start"
      [] unit.ActiveState = "deactivating" -> "stop-sigterm"
      [] unit.ActiveState = "failed" -> "failed"

is_active(unit) == unit.ActiveState = "active"

is_enabled(unit) == unit.enabled

\* ------------------------------------------------------------------------
\* Process credentials (perms.py, proc.py, __main__.py)
\* ------------------------------------------------------------------------
\* An id is written as the user it belongs to; get_ids(user) is the pair of
\* the user's uid and the gid of the user's group.
Users == {"root", "server_user", "login_user"}

Root == "root"

get_ids(user) == <<user, user>>

\* The credentials of a process started by user: real, effective (and
\* saved) ids are the user's. old holds the effective ids the open run_as
\* blocks were entered with and have saved, innermost last; raising says
\* that an exception is on its way out; calls lists the mutating calls made
\* to the init system with the effective uid they were made under.
ProcessOf(user) ==
    [ruid |-> user, rgid |-> user, euid |-> user, egid |-> user,
     old |-> <<>>, raising |-> FALSE, calls |-> <<>>]

\* seteuid / setegid: a process whose effective uid is not root may only
\* switch to its real, effective or saved id; the saved ids are the real
\* ones, as neither call changes them.
MaySetEgid(c, gid) == c.euid = Root \/ gid \in {c.rgid, c.egid}

MaySetEuid(c, uid) == c.euid = Root \/ uid \in {c.ruid, c.euid}

\* perms.set_eids / proc.run_as: os.setegid(gid), then os.seteuid(uid).
\* ok is FALSE when one of them raised PermissionError; the gid stays
\* changed when only the second one failed.
set_eids(c, uid, gid) ==
    IF ~MaySetEgid(c, gid)
    THEN [ok |-> FALSE, cred |-> c]
    ELSE IF ~MaySetEuid([c EXCEPT !.egid = gid], uid)
    THEN [ok |-> FALSE, cred |-> [c EXCEPT !.egid = gid]]
    ELSE [ok |-> TRUE, cred |-> [c EXCEPT !.egid = gid, !.euid = uid]]

\* A mutating call to the init system, noted with the effective uid of the
\* process at that moment.
Called(c, call) == [c EXCEPT !.calls = Append(@, <<call, c.euid>>)]

\* The elevation dicts of get_parser; on_cond is a set of <<argument, value>>.
no_elev == [default |-> "server_user", change_to |-> "-", on_cond |-> {},
            change_fully |-> FALSE]

semi_elev == [no_elev EXCEPT !.change_to = "root"]

re_start_elev ==
    [semi_elev EXCEPT !.on_cond = {<<"restart", TRUE>>, <<"start", TRUE>>}]

create_elev == [semi_elev EXCEPT !.on_cond = {<<"start", TRUE>>}]

root_elev == [default |-> "login_user", change_to |-> "root", on_cond |-> {},
              change_fully |-> TRUE]

wcfg_elev == [root_elev EXCEPT !.on_cond = {<<"user", FALSE>>}]

Elevation(cmd) ==
    CASE cmd \in {"start", "stop", "restart", "status", "export"} -> semi_elev
      [] cmd \in {"config", "update", "uninstall"} -> re_start_elev
      [] cmd \in {"install", "import"} -> root_elev
      [] cmd = "create" -> create_elev
      [] cmd = "write-cfg" -> wcfg_elev
      [] OTHER -> no_elev

\* get_permlevel escalating only when every declared condition is met.
get_permlevel_all_conds(args, elevation) ==
    LET cond_match == \A kv \in elevation.on_cond : args[kv[1]] = kv[2]
    IN IF cond_match /\ elevation.change_to # "-"
       THEN [usr |-> elevation.change_to,
             eusr |-> IF elevation.change_fully THEN "-" ELSE elevation.default]
       ELSE [usr |-> elevation.default, eusr |-> "-"]

\* get_permlevel: the user the process is restarted as, and the user whose
\* ids become the effective ones ("-" for none).
get_permlevel(args, elevation) ==
    LET cond_match ==
            \/ elevation.on_cond = {}
            \/ \E kv \in elevation.on_cond : args[kv[1]] = kv[2]
    IN IF cond_match /\ elevation.change_to # "-"
       THEN [usr |-> elevation.change_to,
             eusr |-> IF elevation.change_fully THEN "-" ELSE elevation.default]
       ELSE [usr |-> elevation.default, eusr |-> "-"]

\* apply_permlevel: perms.elevate re-executes the program through sudo as
\* usr, then the effective ids are set to those of eusr.
apply_permlevel(permlevel) ==
    IF permlevel.eusr = "-"
    THEN ProcessOf(permlevel.usr)
    ELSE set_eids(ProcessOf(permlevel.usr),
                  get_ids(permlevel.eusr)[1], get_ids(permlevel.eusr)[2]).cred

\* What main hands to apply_permlevel for one sub-command or another.
Permlevels ==
    {[usr |-> "server_user", eusr |-> "-"],
     [usr |-> "root", eusr |-> "server_user"],
     [usr |-> "root", eusr |-> "-"]}

\* A process starts (the previous one, if any, has left all its blocks).
ProcessStart ==
    /\ cred.old = <<>>
    /\ \E p \in Permlevels : cred' = apply_permlevel(p)
    /\ UNCHANGED <<dirs, jars, units, inv, pc, loc, result, events, snap, prev,
                   pfile, pupd, plugins>>

\* with run_as(uid, gid): old = set_eids(uid, gid), before the try; a
\* PermissionError here leaves through the enclosing blocks.
RunAsEnter ==
    /\ ~cred.raising
    /\ Len(cred.old) < MaxDepth
    /\ \E uid \in Users, gid \in Users :
          LET r == set_eids(cred, uid, gid)
          IN cred' = IF r.ok
                     THEN [r.cred EXCEPT !.old = Append(@, <<cred.euid, cred.egid>>)]
                     ELSE [r.cred EXCEPT !.raising = TRUE]
    /\ UNCHANGED <<dirs, jars, units, inv, pc, loc, result, events, snap, prev,
                   pfile, pupd, plugins>>

\* The body of the innermost block raises.
RunAsRaise ==
    /\ ~cred.raising
    /\ cred.old # <<>>
    /\ cred' = [cred EXCEPT !.raising = TRUE]
    /\ UNCHANGED <<dirs, jars, units, inv, pc, loc, result, events, snap, prev,
                   pfile, pupd, plugins>>

\* finally: set_eids(*old), on the way out of the innermost block, whether
\* its body ended or an exception passes through.
RunAsExit ==
    /\ cred.old # <<>>
    /\ LET top == cred.old[Len(cred.old)]
           r == set_eids(cred, top[1], top[2])
       IN cred' = [r.cred EXCEPT !.old = SubSeq(@, 1, Len(@) - 1),
                                 !.raising = @ \/ ~r.ok]
    /\ UNCHANGED <<dirs, jars, units, inv, pc, loc, result, events, snap, prev,
                   pfile, pupd, plugins>>

\* ------------------------------------------------------------------------
\* Invocations
\* ------------------------------------------------------------------------
DefaultInv ==
    [cmd |-> "idle", instance |-> "-", source |-> "-", memory |-> <<>>,
     properties |-> <<>>, start |-> FALSE, action |-> "-",
     persistent |-> FALSE, new_name |-> "-", force |-> FALSE,
     restart |-> FALSE, edit_paths |-> <<>>, sources |-> {},
     plugins |-> <<>>, autoupgrade |-> FALSE, verbose |-> FALSE,
     type_id |-> <<>>, user |-> FALSE]

\* No second invocation is running beside this one.
NoContext == [pc |-> "none"]

DefaultLoc ==
    [action |-> "-", persistent |-> FALSE, ret |-> "return",
     state |-> "None", jar |-> NoJar, report |-> "-", proto |-> 0,
     seen |-> "-", seen_enabled |-> FALSE, do_remove |-> FALSE,
     paths |-> <<>>, edited |-> 0, do_restart |-> FALSE,
     answering |-> FALSE, polls |-> 0, todo |-> {}, installed |-> {},
     resolved_names |-> {}, listed |-> {}, answer |-> "-", i |-> 0,
     status |-> -1, printed |-> <<>>, proc |-> "-", watch_file |-> "None",
     signaled |-> FALSE, success |-> FALSE, marker_seen |-> FALSE,
     sigterm |-> 0, sigkill |-> 0, resolved |-> "-",
     pulled |-> "-", jar_path |-> <<>>, type_id |-> <<>>,
     safe_kwargs |-> {}, was_enabled |-> FALSE,
     self |-> "-", other |-> NoContext]

Begin(i, first) ==
    /\ pc \in {"idle", "done"}
    /\ inv' = i
    /\ loc' = DefaultLoc
    /\ pc' = first
    /\ result' = "running"
    /\ events' = <<>>
    /\ snap' = dirs
    /\ cred' = apply_permlevel(get_permlevel(i, Elevation(i.cmd)))
    /\ prev' = IF pc = "done" /\ inv.cmd = "stop" /\ ~inv.persistent /\ result = "ok"
               THEN inv.instance ELSE "-"

Goto(p) == pc' = p /\ result' = result

Raise(e) == pc' = "done" /\ result' = e

Finish == pc' = "done" /\ result' = "ok"

\* Return from a callee to the position the caller left in loc.ret.
ReturnTo(ret) == IF ret = "return" THEN Finish ELSE Goto(ret)

\* ------------------------------------------------------------------------
\* The init system, working through its job queue on its own
\* ------------------------------------------------------------------------
\* A queued job starts its transition.
SdDispatch ==
    \E n \in Names :
        /\ units[n].job # "none"
        /\ units[n].ActiveState # "deactivating"
        /\ units' = [units EXCEPT ![n] =
              CASE @.job = "start" ->
                     [@ EXCEPT !.job = "none",
                               !.ActiveState =
                                   IF @ \in {"inactive", "failed"}
                                   THEN "activating" ELSE @]
                [] @.job = "stop" ->
                     [@ EXCEPT !.job = "none",
                               !.ActiveState =
                                   IF @ \in {"active", "activating"}
                                   THEN "deactivating" ELSE @]
                [] @.job = "restart" ->
                     IF @.ActiveState \in {"active", "activating"}
                     THEN [@ EXCEPT !.job = "start",
                                    !.ActiveState = "deactivating"]
                     ELSE [@ EXCEPT !.job = "none",
                                    !.ActiveState = "activating"]]
        /\ UNCHANGED <<dirs, jars, inv, pc, loc, result, events, snap, prev, pfile, pupd, cred, plugins>>

\* A transition settles: the server came up (or its start failed), or the
\* server went down.
SdSettle ==
    \E n \in Names, came_up \in BOOLEAN :
        /\ units[n].ActiveState \in {"activating", "deactivating"}
        /\ units' = [units EXCEPT ![n].ActiveState =
              IF @ = "deactivating" THEN "inactive"
              ELSE IF came_up /\ dirs[n].exists /\ dirs[n].jar # NoJar
                   THEN "active" ELSE "failed"]
        /\ UNCHANGED <<dirs, jars, inv, pc, loc, result, events, snap, prev, pfile, pupd, cred, plugins>>

\* ------------------------------------------------------------------------
\* service.set_status / common.notified_set_status
\* ------------------------------------------------------------------------
\* Enter notified_set_status(instance, action, persistent=persistent).
CallNotified(action, persistent, ret) ==
    /\ loc' = [loc EXCEPT !.action = action, !.persistent = persistent,
                          !.ret = ret, !.state = "None",
                          !.was_enabled = units[inv.instance].enabled]
    /\ Goto("nss_persist")

set_persistence(unit, enable) == [unit EXCEPT !.enabled = enable]

\* notified_set_status toggling persistence for restart as well.
NssPersist_restart_too ==
    /\ pc = "nss_persist"
    /\ IF loc.persistent
       THEN /\ units' = [units EXCEPT ![inv.instance] =
                            set_persistence(@, loc.action = "start")]
            /\ events' = Append(events,
                                IF loc.action = "start" THEN "enable" ELSE "disable")
            /\ cred' = Called(cred, IF loc.action = "start" THEN "enable" ELSE "disable")
       ELSE UNCHANGED <<units, events, cred>>
    /\ Goto(IF loc.action \in {"stop", "restart"} THEN "nss_notify" ELSE "set_status")
    /\ UNCHANGED <<dirs, jars, inv, loc, snap, prev, pfile, pupd, plugins>>

NssPersist ==
    /\ pc = "nss_persist"
    /\ IF loc.persistent /\ loc.action # "restart"
       THEN /\ units' = [units EXCEPT ![inv.instance] =
                            set_persistence(@, loc.action = "start")]
            /\ events' = Append(events,
                                IF loc.action = "start" THEN "enable" ELSE "disable")
            /\ cred' = Called(cred, IF loc.action = "start" THEN "enable" ELSE "disable")
       ELSE UNCHANGED <<units, events, cred>>
    /\ Goto(IF loc.action \in {"stop", "restart"} THEN "nss_notify" ELSE "set_status")
    /\ UNCHANGED <<dirs, jars, inv, loc, snap, prev, pfile, pupd, plugins>>

\* notified_set_status sending no notice at all.
NssNotify_silent ==
    /\ pc = "nss_notify"
    /\ \E ready \in BOOLEAN :
          /\ loc' = [loc EXCEPT !.answering = is_active(units[inv.instance]) /\ ready]
          /\ Goto("set_status")
    /\ UNCHANGED <<dirs, jars, units, inv, events, snap, prev, pfile, pupd, cred, plugins>>

\* proc.mc_exec: the console broadcast. ready is the answer of the status
\* probe; a server that is still starting raises ConnectionError, which
\* notified_set_status swallows. loc.answering keeps what mc_exec found:
\* the unit active and the server answering the probe.
NssNotify ==
    /\ pc = "nss_notify"
    /\ \E ready \in BOOLEAN :
          /\ loc' = [loc EXCEPT !.answering = is_active(units[inv.instance]) /\ ready]
          /\ IF ~is_active(units[inv.instance])
             THEN Raise("OSError") /\ UNCHANGED events
             ELSE /\ Goto("set_status")
                  /\ events' = IF ready THEN Append(events, "broadcast") ELSE events
    /\ UNCHANGED <<dirs, jars, units, inv, snap, prev, pfile, pupd, cred, plugins>>

\* with proc.managed_run_as(0, 0): action_func("replace"). The job is
\* queued under root's effective ids and the call returns.
SetStatusCall ==
    /\ pc = "set_status"
    /\ LET entered == set_eids(cred, Root, Root)
       IN IF ~entered.ok
          THEN /\ Raise("PermissionError")
               /\ cred' = entered.cred
               /\ UNCHANGED <<units, events, loc>>
          ELSE /\ units' = [units EXCEPT ![inv.instance].job = loc.action]
               /\ events' = Append(events, loc.action)
               /\ cred' = set_eids(Called(entered.cred, loc.action),
                                   cred.euid, cred.egid).cred
               /\ loc' = [loc EXCEPT !.state = "None", !.polls = 0]
               /\ Goto("ss_poll")
    /\ UNCHANGED <<dirs, jars, inv, snap, prev, pfile, pupd, plugins>>

\* One round of the polling loop.
SetStatusPoll ==
    /\ pc = "ss_poll"
    /\ loc' = [loc EXCEPT !.state = units[inv.instance].ActiveState,
                          !.polls = IF @ < MaxPolls THEN @ + 1 ELSE @]
    /\ Goto(IF units[inv.instance].ActiveState \in {"deactivating", "activating"}
            THEN "ss_poll" ELSE "ss_check")
    /\ UNCHANGED <<dirs, jars, units, inv, events, snap, prev, pfile, pupd, cred, plugins>>

\* set_status without the final comparison.
SetStatusCheck_unverified ==
    /\ pc = "ss_check"
    /\ ReturnTo(loc.ret)
    /\ UNCHANGED <<dirs, jars, units, inv, loc, events, snap, prev, pfile, pupd, cred, plugins>>

SetStatusCheck ==
    /\ pc = "ss_check"
    /\ IF is_active(units[inv.instance]) = (loc.action = "stop")
       THEN Raise("OSError")
       ELSE ReturnTo(loc.ret)
    /\ UNCHANGED <<dirs, jars, units, inv, loc, events, snap, prev, pfile, pupd, cred, plugins>>

\* ------------------------------------------------------------------------
\* common.create
\* ------------------------------------------------------------------------
MemoryArgs == {<<>>, <<"1", "G">>}

PropertyArgs == {<<>>, << <<"B", "=", "1">> >>}

CreateBegin ==
    \E n \in Names, src \in Sources, m \in MemoryArgs,
       p \in PropertyArgs, st \in BOOLEAN :
        /\ Begin([DefaultInv EXCEPT !.cmd = "create", !.instance = n,
                                    !.source = src, !.memory = m,
                                    !.properties = p, !.start = st],
                 "create_exists")
        /\ UNCHANGED <<dirs, jars, units, pfile, pupd, plugins>>

\* create without its existence check.
CreateExists_unchecked ==
    /\ pc = "create_exists"
    /\ Goto("create_dirs")
    /\ UNCHANGED <<dirs, jars, units, inv, loc, events, snap, prev, pfile, pupd, cred, plugins>>

\* if instance_path.exists(): raise FileExistsError
CreateExists ==
    /\ pc = "create_exists"
    /\ IF dirs[inv.instance].exists
       THEN Raise("FileExistsError")
       ELSE Goto("create_dirs")
    /\ UNCHANGED <<dirs, jars, units, inv, loc, events, snap, prev, pfile, pupd, cred, plugins>>

\* Path.mkdir(path, mode=0o0750, parents=True, exist_ok=True)
create_dirs(dir) == IF dir.exists THEN dir ELSE EmptyDir

CreateDirs ==
    /\ pc = "create_dirs"
    /\ dirs' = [dirs EXCEPT ![inv.instance] = create_dirs(@)]
    /\ events' = Append(events, "mkdir")
    /\ Goto("create_pull")
    /\ UNCHANGED <<jars, units, inv, loc, snap, prev, pfile, pupd, cred, plugins>>

\* How get_download_url ended, kept for the caller of web.pull.
Resolved(resolved) == loc' = [loc EXCEPT !.resolved = resolved]

\* What a download leaves at its destination: the bytes the server sent
\* (two answers stand for content that differs between requests), the
\* beginning of them when the stream breaks, or nothing when the request
\* itself fails.
Served == {"jarA", "jarB", "partial", "refused"}

\* web.download: open(file_dest, "wb") after the request went through.
download(cache, tag, served) ==
    IF served = "refused" THEN cache ELSE [cache EXCEPT ![tag] = served]

\* web.pull storing the file whether or not the cache has it.
pull_store_refetch(cache, tag, served) == download(cache, tag, served)

\* web.pull with a download URL: only a tag without a file is downloaded.
pull_store(cache, tag, served) ==
    IF cache[tag] # NoJar THEN cache ELSE download(cache, tag, served)

\* web.pull: resolved says how get_download_url ended ("ok", "lookup" for
\* LookupError, "error" for any other failure), served what the download of
\* a tag that is not cached yet brought.
pull(next) ==
    \E resolved \in {"ok", "lookup", "error"}, served \in Served :
        LET tag == IF resolved = "ok" THEN ResolveTag(inv.source) ELSE inv.source
            pulled == IF jars[tag] # NoJar THEN "cached" ELSE "download"
        IN IF resolved = "error"
           THEN Raise("ConnectionError") /\ Resolved(resolved) /\ UNCHANGED jars
           ELSE IF resolved = "lookup"
           THEN /\ UNCHANGED jars
                /\ IF jars[tag] # NoJar
                   THEN /\ Goto(next)
                        /\ loc' = [loc EXCEPT !.jar = tag, !.resolved = resolved,
                                              !.pulled = pulled]
                   ELSE Raise("FileNotFoundError") /\ Resolved(resolved)
           ELSE /\ jars' = pull_store(jars, tag, served)
                /\ IF jars[tag] # NoJar \/ served \in {"jarA", "jarB"}
                   THEN /\ Goto(next)
                        /\ loc' = [loc EXCEPT !.jar = tag, !.resolved = resolved,
                                              !.pulled = pulled]
                   ELSE /\ Raise("ConnectionError")
                        /\ loc' = [loc EXCEPT !.resolved = resolved,
                                              !.pulled = pulled]

CreatePull ==
    /\ pc = "create_pull"
    /\ pull("create_symlink")
    /\ UNCHANGED <<dirs, units, inv, events, snap, prev, pfile, pupd, cred, plugins>>

\* storage.symlink: an existing link is replaced.
symlink(dir, tag) == [dir EXCEPT !.jar = tag]

CreateSymlink ==
    /\ pc = "create_symlink"
    /\ IF dirs[inv.instance].exists
       THEN /\ dirs' = [dirs EXCEPT ![inv.instance] = symlink(@, loc.jar)]
            /\ Goto("create_pre_start")
       ELSE Raise("FileNotFoundError") /\ UNCHANGED dirs
    /\ UNCHANGED <<jars, units, inv, loc, events, snap, prev, pfile, pupd, cred, plugins>>

\* proc.pre_start: the binary runs once; generated says whether it wrote
\* its first-run files before it exited or was killed.
CreatePreStart ==
    /\ pc = "create_pre_start"
    /\ \E generated \in BOOLEAN :
          dirs' = [dirs EXCEPT ![inv.instance] =
                      IF generated /\ @.exists
                      THEN [@ EXCEPT !.eula = "false", !.props = GeneratedProps]
                      ELSE @]
    /\ Goto("create_eula")
    /\ UNCHANGED <<jars, units, inv, loc, events, snap, prev, pfile, pupd, cred, plugins>>

\* proc.pre_start, one poll at a time.  kill_sec and fps are its defaults;
\* create passes no watch_file.
kill_sec == 80

fps == 4

CreateWatchFile == "None"

\* sproc.Popen: the server binary starts in the instance directory.
PreStartSpawn ==
    /\ pc = "create_pre_start"
    /\ loc' = [loc EXCEPT !.proc = "running", !.watch_file = CreateWatchFile,
                          !.i = 0, !.signaled = FALSE, !.success = FALSE]
    /\ events' = Append(events, "spawn")
    /\ Goto("pre_start_loop")
    /\ UNCHANGED <<dirs, jars, units, inv, snap, prev, pfile, pupd, cred, plugins>>

\* watch_file.is_file() for the EULA file of the instance.
is_file(dir, watch_file) == watch_file = "eula.txt" /\ dir.eula # "none"

\* The branch one iteration of the loop takes after its sleep.
pre_start_branch(l, dir) ==
    IF ~l.signaled /\ l.watch_file # "None" /\ is_file(dir, l.watch_file)
    THEN "terminate"
    ELSE IF l.i = kill_sec * fps THEN "kill"
    ELSE IF l.proc # "running" THEN "break"
    ELSE "next"

\* One iteration of the loop, or the return once range() is exhausted.
PreStartPoll ==
    /\ pc = "pre_start_loop"
    /\ IF loc.i > kill_sec * fps
       THEN /\ Goto("create_eula")
            /\ UNCHANGED <<loc, events>>
       ELSE LET branch == pre_start_branch(loc, dirs[inv.instance])
                seen == loc.marker_seen
                        \/ (dirs[inv.instance].eula # "none" /\ loc.proc = "running")
            IN CASE branch = "terminate" ->
                      /\ loc' = [loc EXCEPT !.signaled = TRUE, !.i = @ + 1,
                                            !.sigterm = 1, !.marker_seen = seen]
                      /\ events' = Append(events, "terminate")
                      /\ Goto("pre_start_loop")
                 [] branch = "kill" ->
                      /\ loc' = [loc EXCEPT !.i = @ + 1, !.sigkill = 1,
                                            !.marker_seen = seen,
                                            !.proc = IF @ = "running"
                                                     THEN "killed" ELSE @]
                      /\ events' = Append(events, "kill")
                      /\ Goto("pre_start_loop")
                 [] branch = "break" ->
                      /\ loc' = [loc EXCEPT !.success = TRUE, !.marker_seen = seen]
                      /\ Goto("create_eula")
                      /\ UNCHANGED events
                 [] branch = "next" ->
                      /\ loc' = [loc EXCEPT !.i = @ + 1, !.marker_seen = seen]
                      /\ Goto("pre_start_loop")
                      /\ UNCHANGED events
    /\ UNCHANGED <<dirs, jars, units, inv, snap, prev, pfile, pupd, cred, plugins>>

\* The server writes its first-run files, eula.txt among them.
ServerWritesEula ==
    /\ pc = "pre_start_loop"
    /\ loc.proc = "running"
    /\ dirs[inv.instance].exists
    /\ dirs[inv.instance].eula = "none"
    /\ dirs' = [dirs EXCEPT ![inv.instance] =
                   [@ EXCEPT !.eula = "false", !.props = GeneratedProps]]
    /\ UNCHANGED <<jars, units, inv, loc, events, snap, prev, pfile, pupd, cred,
                   plugins, pc, result>>

\* The server process ends by itself: on an unaccepted EULA, on a crash,
\* or after SIGTERM.
ServerExits ==
    /\ pc = "pre_start_loop"
    /\ loc.proc = "running"
    /\ loc' = [loc EXCEPT !.proc = "exited"]
    /\ UNCHANGED <<dirs, jars, units, inv, events, snap, prev, pfile, pupd, cred,
                   plugins, pc, result>>

\* accept_eula taking every answer but "false" for consent.
CreateEula_any_answer ==
    /\ pc = "create_eula"
    /\ IF dirs[inv.instance].eula = "none"
       THEN Raise("FileNotFoundError") /\ UNCHANGED <<dirs, events, loc>>
       ELSE \E ans \in {"true", "false", "other", "interrupt"} :
               /\ loc' = [loc EXCEPT !.answer = ans]
               /\ CASE ans \in {"true", "other"} ->
                         /\ dirs' = [dirs EXCEPT ![inv.instance].eula = "true"]
                         /\ events' = Append(events, "eula=true")
                         /\ Goto("create_config")
                    [] ans = "false" ->
                         /\ Raise("ValueError")
                         /\ events' = Append(events, "declined")
                         /\ UNCHANGED dirs
                    [] ans = "interrupt" ->
                         /\ Raise("KeyboardInterrupt")
                         /\ UNCHANGED <<dirs, events>>
    /\ UNCHANGED <<jars, units, inv, snap, prev, pfile, pupd, cred, plugins>>

\* config.accept_eula: ans is what the operator types at the prompt
\* ("other" is asked again; "interrupt" is Ctrl-C) and is kept in
\* loc.answer.
CreateEula ==
    /\ pc = "create_eula"
    /\ IF dirs[inv.instance].eula = "none"
       THEN Raise("FileNotFoundError") /\ UNCHANGED <<dirs, events, loc>>
       ELSE \E ans \in {"true", "false", "other", "interrupt"} :
               /\ loc' = [loc EXCEPT !.answer = ans]
               /\ CASE ans = "true" ->
                         /\ dirs' = [dirs EXCEPT ![inv.instance].eula = "true"]
                         /\ events' = Append(events, "eula=true")
                         /\ Goto("create_config")
                    [] ans = "false" ->
                         /\ Raise("ValueError")
                         /\ events' = Append(events, "declined")
                         /\ UNCHANGED dirs
                    [] ans = "other" ->
                         /\ Goto("create_eula")
                         /\ UNCHANGED <<dirs, events>>
                    [] ans = "interrupt" ->
                         /\ Raise("KeyboardInterrupt")
                         /\ UNCHANGED <<dirs, events>>
    /\ UNCHANGED <<jars, units, inv, snap, prev, pfile, pupd, cred, plugins>>

\* The property and memory overrides, then the optional start.
CreateConfig ==
    /\ pc = "create_config"
    /\ dirs' = [dirs EXCEPT ![inv.instance] =
          [@ EXCEPT
             !.props = IF inv.properties # <<>>
                       THEN set_properties(@, properties_to_dict(inv.properties))
                       ELSE @,
             !.env = IF inv.memory # <<>>
                     THEN set_properties(@, << <<MEM, inv.memory>> >>)
                     ELSE @]]
    /\ events' = Append(events, "configured")
    /\ IF inv.start
       THEN CallNotified("start", TRUE, "create_done")
       ELSE Goto("create_done") /\ UNCHANGED loc
    /\ UNCHANGED <<jars, units, inv, snap, prev, pfile, pupd, cred, plugins>>

CreateDone ==
    /\ pc = "create_done"
    /\ Finish
    /\ UNCHANGED <<dirs, jars, units, inv, loc, events, snap, prev, pfile, pupd, cred, plugins>>

\* ------------------------------------------------------------------------
\* start / stop / restart from the command line
\* ------------------------------------------------------------------------
NotifiedBegin ==
    \E n \in Names, a \in {"start", "stop", "restart"}, p \in BOOLEAN :
        /\ Begin([DefaultInv EXCEPT !.cmd = a, !.instance = n, !.action = a,
                                    !.persistent = p],
                 "nss_enter")
        /\ UNCHANGED <<dirs, jars, units, pfile, pupd, plugins>>

NotifiedEnter ==
    /\ pc = "nss_enter"
    /\ CallNotified(inv.action, inv.persistent, "return")
    /\ UNCHANGED <<dirs, jars, units, inv, events, snap, prev, pfile, pupd, cred, plugins>>

\* ------------------------------------------------------------------------
\* common.rename
\* ------------------------------------------------------------------------
RenameBegin ==
    \E n \in Names, new \in Names :
        /\ Begin([DefaultInv EXCEPT !.cmd = "rename", !.instance = n,
                                    !.new_name = new],
                 "rename_check")
        /\ UNCHANGED <<dirs, jars, units, pfile, pupd, plugins>>

\* The guard with "and" for "or".
StillInUse_both(unit) == is_enabled(unit) /\ is_active(unit)

\* if (service.is_enabled(unit) or service.is_active(unit)): raise OSError
StillInUse(unit) == is_enabled(unit) \/ is_active(unit)

RenameCheck ==
    /\ pc = "rename_check"
    /\ loc' = [loc EXCEPT !.seen = units[inv.instance].ActiveState,
                          !.seen_enabled = units[inv.instance].enabled]
    /\ IF StillInUse(units[inv.instance])
       THEN Raise("OSError")
       ELSE Goto("rename_move")
    /\ UNCHANGED <<dirs, jars, units, inv, events, snap, prev, pfile, pupd, cred, plugins>>

\* Path.rename (rename(2)): a missing source and a non-empty directory of
\* the new name are errors; an empty directory of the new name is replaced.
RenameMove ==
    /\ pc = "rename_move"
    /\ LET src == inv.instance
           dst == inv.new_name
       IN IF ~dirs[src].exists
          THEN Raise("FileNotFoundError") /\ UNCHANGED <<dirs, events>>
          ELSE IF src = dst
          THEN Finish /\ UNCHANGED <<dirs, events>>
          ELSE IF dirs[dst].exists /\ dirs[dst] # EmptyDir
          THEN Raise("OSError") /\ UNCHANGED <<dirs, events>>
          ELSE /\ dirs' = [dirs EXCEPT ![dst] = dirs[src], ![src] = NoDir]
               /\ events' = Append(events, "moved")
               /\ Finish
    /\ UNCHANGED <<jars, units, inv, loc, snap, prev, pfile, pupd, cred, plugins>>

\* ------------------------------------------------------------------------
\* storage.remove
\* ------------------------------------------------------------------------
RemoveBegin ==
    \E n \in Names, f \in BOOLEAN :
        /\ Begin([DefaultInv EXCEPT !.cmd = "rm", !.instance = n, !.force = f],
                 "rm_check")
        /\ UNCHANGED <<dirs, jars, units, pfile, pupd, plugins>>

RemoveCheck ==
    /\ pc = "rm_check"
    /\ IF ~dirs[inv.instance].exists
       THEN Raise("FileNotFoundError") /\ UNCHANGED loc
       ELSE /\ loc' = [loc EXCEPT !.seen = units[inv.instance].ActiveState,
                                  !.seen_enabled = units[inv.instance].enabled]
            /\ IF StillInUse(units[inv.instance])
               THEN Raise("OSError")
               ELSE Goto("rm_prompt")
    /\ UNCHANGED <<dirs, jars, units, inv, events, snap, prev, pfile, pupd, cred, plugins>>

\* do_remove = force or visuals.bool_selector(prompt_msg)
RemovePrompt ==
    /\ pc = "rm_prompt"
    /\ IF inv.force
       THEN Goto("rm_delete") /\ loc' = [loc EXCEPT !.do_remove = TRUE]
       ELSE \E ans \in {"y", "n", "other", "interrupt"} :
               CASE ans = "y" ->
                      Goto("rm_delete") /\ loc' = [loc EXCEPT !.do_remove = TRUE]
                 [] ans = "n" ->
                      Goto("rm_delete") /\ loc' = [loc EXCEPT !.do_remove = FALSE]
                 [] ans = "other" ->
                      Goto("rm_prompt") /\ UNCHANGED loc
                 [] ans = "interrupt" ->
                      Raise("KeyboardInterrupt") /\ UNCHANGED loc
    /\ UNCHANGED <<dirs, jars, units, inv, events, snap, prev, pfile, pupd, cred, plugins>>

\* shutil.rmtree(path)
remove_all(dir) == NoDir

RemoveDelete ==
    /\ pc = "rm_delete"
    /\ IF ~loc.do_remove
       THEN Finish /\ UNCHANGED <<dirs, events>>
       ELSE IF ~dirs[inv.instance].exists
       THEN Raise("FileNotFoundError") /\ UNCHANGED <<dirs, events>>
       ELSE /\ dirs' = [dirs EXCEPT ![inv.instance] = remove_all(@)]
            /\ events' = Append(events, "removed")
            /\ Finish
    /\ UNCHANGED <<jars, units, inv, loc, snap, prev, pfile, pupd, cred, plugins>>

\* ------------------------------------------------------------------------
\* ls / status / inspect: the reconciled status
\* ------------------------------------------------------------------------
StatusCmds == {"ls", "status", "inspect"}

\* Protocol versions a server that answers the probe reports.
ProbeProtocols == {47, 758}

\* status.get_simple_status: "proto" of the displayable status.
get_simple_status(outcome, protocol) ==
    IF outcome = "answer" THEN protocol ELSE -1

\* The probe alone decides: whatever answers on the port counts as running.
get_online_state_probe_only(unit, protocol_version) ==
    IF protocol_version < 0
    THEN (IF SubState(unit) = "running" THEN "starting" ELSE SubState(unit))
    ELSE "running"

\* The raw unit state, without the probe.
get_online_state_raw(unit, protocol_version) == SubState(unit)

get_online_state(unit, protocol_version) ==
    IF SubState(unit) = "running" /\ protocol_version < 0
    THEN "starting"
    ELSE SubState(unit)

StatusBegin ==
    \E n \in Names, c \in StatusCmds :
        /\ Begin([DefaultInv EXCEPT !.cmd = c, !.instance = n], "status_probe")
        /\ UNCHANGED <<dirs, jars, units, pfile, pupd, plugins>>

\* The probe of the instance's port: whatever listens there answers, or
\* the connection is refused or times out.
StatusProbe ==
    /\ pc = "status_probe"
    /\ IF ~dirs[inv.instance].exists
       THEN Raise("FileNotFoundError") /\ UNCHANGED loc
       ELSE \E outcome \in {"answer", "refused", "timeout"},
               protocol \in ProbeProtocols :
               /\ loc' = [loc EXCEPT !.proto = get_simple_status(outcome, protocol)]
               /\ Goto("status_unit")
    /\ UNCHANGED <<dirs, jars, units, inv, events, snap, prev, pfile, pupd, cred, plugins>>

\* unit = service.get_unit(name); state = get_online_state(unit, proto)
StatusUnit ==
    /\ pc = "status_unit"
    /\ loc' = [loc EXCEPT !.report = get_online_state(units[inv.instance], loc.proto),
                          !.seen = units[inv.instance].ActiveState,
                          !.seen_enabled = units[inv.instance].enabled]
    /\ Finish
    /\ UNCHANGED <<dirs, jars, units, inv, events, snap, prev, pfile, pupd, cred, plugins>>

\* ------------------------------------------------------------------------
\* common.configure
\* ------------------------------------------------------------------------
\* The files configure is pointed at: server.properties and the env file.
Targets == {"props", "env"}

GetTarget(dir, t) == IF t = "props" THEN dir.props ELSE dir.env

SetTarget(dir, t, f) ==
    IF t = "props" THEN [dir EXCEPT !.props = f] ELSE [dir EXCEPT !.env = f]

\* A temporary copy is <name>.<16 random letters> beside the original; the
\* model numbers the copies, a new one taking a number no copy in the
\* directory has.
TmpIds(dir) == {r.id : r \in dir.tmp}

FreshId(dir) == CHOOSE k \in 1..(Cardinality(dir.tmp) + 1) : k \notin TmpIds(dir)

TmpOf(dir, id) == CHOOSE r \in dir.tmp : r.id = id

\* storage.tmpcopy: the original is created empty when missing, then copied.
tmpcopy(dir, t) ==
    LET orig == IF GetTarget(dir, t).exists THEN GetTarget(dir, t) ELSE File(<<>>)
    IN [SetTarget(dir, t, orig) EXCEPT
           !.tmp = @ \cup {[id |-> FreshId(dir), of |-> t, file |-> orig]}]

WriteTmp(dir, id, f) ==
    [dir EXCEPT !.tmp = (@ \ {TmpOf(dir, id)}) \cup {[TmpOf(dir, id) EXCEPT !.file = f]}]

\* tmp_path.unlink()
UnlinkTmp(dir, id) == [dir EXCEPT !.tmp = @ \ {TmpOf(dir, id)}]

\* storage.move(src, dst): the temporary copy is renamed over the original.
move(dir, id, t) == UnlinkTmp(SetTarget(dir, t, TmpOf(dir, id).file), id)

\* storage.get_file_hash: SHA-1 of the content, taken to be collision-free.
get_file_hash(file) == file.lines

\* What the operator may leave in the file when the editor exits.
EditedFiles == {File(<< <<"B", "=", "1">> >>), File(<< <<"#">>, <<"A", "=", "A">> >>)}

EditArgs == {<<>>, <<"props">>, <<"env">>}

ConfigureBegin ==
    \E n \in Names, p \in PropertyArgs, m \in MemoryArgs,
       e \in EditArgs, r \in BOOLEAN :
        /\ Cardinality(dirs[n].tmp) <= MaxTmp
        /\ Begin([DefaultInv EXCEPT !.cmd = "config", !.instance = n,
                                    !.properties = p, !.memory = m,
                                    !.edit_paths = e, !.restart = r],
                 "cfg_args")
        /\ UNCHANGED <<dirs, jars, units, pfile, pupd, plugins>>

\* if not any((properties, edit_paths, memory)): raise ValueError
ConfigureArgs ==
    /\ pc = "cfg_args"
    /\ IF inv.properties = <<>> /\ inv.edit_paths = <<>> /\ inv.memory = <<>>
       THEN Raise("ValueError")
       ELSE Goto("cfg_props")
    /\ UNCHANGED <<dirs, jars, units, inv, loc, events, snap, prev, pfile, pupd, cred, plugins>>

\* Stage the merge of t with the update: copy, merge into the copy, and
\* enter the copy in paths.
StageMerge(t, update) ==
    LET copied == tmpcopy(dirs[inv.instance], t)
        id == FreshId(dirs[inv.instance])
    IN /\ dirs' = [dirs EXCEPT ![inv.instance] =
                      WriteTmp(copied, id, set_properties(TmpOf(copied, id).file, update))]
       /\ loc' = [loc EXCEPT !.paths = DictSet(@, t, id)]

ConfigureProps ==
    /\ pc = "cfg_props"
    /\ IF inv.properties = <<>>
       THEN Goto("cfg_memory") /\ UNCHANGED <<dirs, loc>>
       ELSE IF ~dirs[inv.instance].exists
       THEN Raise("FileNotFoundError") /\ UNCHANGED <<dirs, loc>>
       ELSE /\ StageMerge("props", properties_to_dict(inv.properties))
            /\ Goto("cfg_memory")
    /\ UNCHANGED <<jars, units, inv, events, snap, prev, pfile, pupd, cred, plugins>>

ConfigureMemory ==
    /\ pc = "cfg_memory"
    /\ IF inv.memory = <<>>
       THEN Goto("cfg_edit") /\ UNCHANGED <<dirs, loc>>
       ELSE IF ~dirs[inv.instance].exists
       THEN Raise("FileNotFoundError") /\ UNCHANGED <<dirs, loc>>
       ELSE /\ StageMerge("env", << <<MEM, inv.memory>> >>)
            /\ Goto("cfg_edit")
    /\ UNCHANGED <<jars, units, inv, events, snap, prev, pfile, pupd, cred, plugins>>

\* file_path not in path_keys: file_path is the string the operator gave
\* and the keys of paths are absolute Path objects, which never equal a
\* string, so no edit path is ever found among the keys.
InPathKeys(file_path, paths) == FALSE

\* One round of the loop over edit_paths: the editor runs on a copy, which
\* is entered in paths when its hash differs from the original's and is
\* removed otherwise.
ConfigureEdit ==
    /\ pc = "cfg_edit"
    /\ LET k == loc.edited + 1
           n == inv.instance
       IN IF k > Len(inv.edit_paths)
          THEN Goto("cfg_decide") /\ UNCHANGED <<dirs, loc>>
          ELSE IF InPathKeys(inv.edit_paths[k], loc.paths)
          THEN \E f \in EditedFiles :
                  /\ dirs' = [dirs EXCEPT ![n] =
                                 WriteTmp(@, DictVal(loc.paths, inv.edit_paths[k]), f)]
                  /\ loc' = [loc EXCEPT !.edited = k]
                  /\ Goto("cfg_edit")
          ELSE IF ~dirs[n].exists
          THEN Raise("FileNotFoundError") /\ UNCHANGED <<dirs, loc>>
          ELSE \E f \in EditedFiles \cup {NoFile} :
                  LET t == inv.edit_paths[k]
                      copied == tmpcopy(dirs[n], t)
                      id == FreshId(dirs[n])
                      \* NoFile: the operator quits without saving
                      saved == IF f.exists THEN f ELSE TmpOf(copied, id).file
                      edited == WriteTmp(copied, id, saved)
                  IN IF get_file_hash(saved) # get_file_hash(GetTarget(copied, t))
                     THEN /\ dirs' = [dirs EXCEPT ![n] = edited]
                          /\ loc' = [loc EXCEPT !.paths = DictSet(@, t, id),
                                                !.edited = k]
                          /\ Goto("cfg_edit")
                     ELSE /\ dirs' = [dirs EXCEPT ![n] = UnlinkTmp(edited, id)]
                          /\ loc' = [loc EXCEPT !.edited = k]
                          /\ Goto("cfg_edit")
    /\ UNCHANGED <<jars, units, inv, events, snap, prev, pfile, pupd, cred, plugins>>

\* configure that leaves out the stop before it swaps.
ConfigureDecide_no_stop ==
    /\ pc = "cfg_decide"
    /\ loc' = [loc EXCEPT !.do_restart = /\ is_active(units[inv.instance])
                                         /\ Len(loc.paths) > 0
                                         /\ inv.restart]
    /\ Goto("cfg_swap")
    /\ UNCHANGED <<dirs, jars, units, inv, events, snap, prev, pfile, pupd, cred, plugins>>

\* do_restart = service.is_active(unit) and len(paths) > 0 and restart
ConfigureDecide ==
    /\ pc = "cfg_decide"
    /\ LET do_restart == /\ is_active(units[inv.instance])
                         /\ Len(loc.paths) > 0
                         /\ inv.restart
       IN IF do_restart
          THEN /\ loc' = [loc EXCEPT !.do_restart = TRUE, !.action = "stop",
                                     !.persistent = FALSE, !.ret = "cfg_swap",
                                     !.state = "None"]
               /\ Goto("nss_persist")
          ELSE /\ loc' = [loc EXCEPT !.do_restart = FALSE]
               /\ Goto("cfg_swap")
    /\ UNCHANGED <<dirs, jars, units, inv, events, snap, prev, pfile, pupd, cred, plugins>>

\* for dst, src in paths.items(): storage.move(src, dst)
ConfigureSwap ==
    /\ pc = "cfg_swap"
    /\ IF loc.paths = <<>>
       THEN /\ IF loc.do_restart
               THEN CallNotified("start", FALSE, "return")
               ELSE Finish /\ UNCHANGED loc
            /\ UNCHANGED <<dirs, events>>
       ELSE /\ dirs' = [dirs EXCEPT ![inv.instance] =
                           move(@, Head(loc.paths)[2], Head(loc.paths)[1])]
            /\ events' = Append(events, Head(loc.paths)[1])
            /\ loc' = [loc EXCEPT !.paths = Tail(@)]
            /\ Goto("cfg_swap")
    /\ UNCHANGED <<jars, units, inv, snap, prev, pfile, pupd, cred, plugins>>

\* ------------------------------------------------------------------------
\* common.update
\* ------------------------------------------------------------------------
\* The binary an instance runs before it is updated.
OldTag == "vanilla:0"

UpdateBegin ==
    \E n \in Names, src \in Sources, r \in BOOLEAN :
        /\ Begin([DefaultInv EXCEPT !.cmd = "update", !.instance = n,
                                    !.source = src, !.restart = r],
                 "update_pull")
        /\ UNCHANGED <<dirs, jars, units, pfile, pupd, plugins>>

\* jar_src, version = web.pull(source, literal_url)
UpdatePull ==
    /\ pc = "update_pull"
    /\ pull("update_symlink")
    /\ UNCHANGED <<dirs, units, inv, events, snap, prev, pfile, pupd, cred, plugins>>

\* The pull command: web.pull is the handler itself.
PullBegin ==
    \E src \in Sources :
        /\ Begin([DefaultInv EXCEPT !.cmd = "pull", !.source = src], "pull_fetch")
        /\ UNCHANGED <<dirs, jars, units, pfile, pupd, plugins>>

PullFetch ==
    /\ pc = "pull_fetch"
    /\ pull("pull_return")
    /\ UNCHANGED <<dirs, units, inv, events, snap, prev, pfile, pupd, cred, plugins>>

PullReturn ==
    /\ pc = "pull_return"
    /\ Finish
    /\ UNCHANGED <<dirs, jars, units, inv, loc, events, snap, prev, pfile, pupd, cred, plugins>>

\* storage.symlink(jar_src, jar_dest): the binary reference is swapped.
UpdateSymlink ==
    /\ pc = "update_symlink"
    /\ IF dirs[inv.instance].exists
       THEN /\ dirs' = [dirs EXCEPT ![inv.instance] = symlink(@, loc.jar)]
            /\ events' = Append(events, "symlink")
            /\ Goto("update_decide")
       ELSE Raise("FileNotFoundError") /\ UNCHANGED <<dirs, events>>
    /\ UNCHANGED <<jars, units, inv, loc, snap, prev, pfile, pupd, cred, plugins>>

\* update restarting whenever the restart flag is set.
UpdateDecide_unconditional ==
    /\ pc = "update_decide"
    /\ IF inv.restart
       THEN /\ loc' = [loc EXCEPT !.seen = units[inv.instance].ActiveState,
                                  !.action = "restart", !.persistent = FALSE,
                                  !.ret = "return", !.state = "None"]
            /\ Goto("nss_persist")
       ELSE /\ loc' = [loc EXCEPT !.seen = units[inv.instance].ActiveState,
                                  !.report = "Manual restart required."]
            /\ Finish
    /\ UNCHANGED <<dirs, jars, units, inv, events, snap, prev, pfile, pupd, cred, plugins>>

\* if service.is_active(unit) and restart: notified restart, else the
\* message gets " Manual restart required." appended. loc.seen keeps the
\* unit state the decision read.
UpdateDecide ==
    /\ pc = "update_decide"
    /\ IF is_active(units[inv.instance]) /\ inv.restart
       THEN /\ loc' = [loc EXCEPT !.seen = units[inv.instance].ActiveState,
                                  !.action = "restart", !.persistent = FALSE,
                                  !.ret = "return", !.state = "None"]
            /\ Goto("nss_persist")
       ELSE /\ loc' = [loc EXCEPT !.seen = units[inv.instance].ActiveState,
                                  !.report = "Manual restart required."]
            /\ Finish
    /\ UNCHANGED <<dirs, jars, units, inv, events, snap, prev, pfile, pupd, cred, plugins>>

\* ------------------------------------------------------------------------
\* __main__.main
\* ------------------------------------------------------------------------
\* The sub-commands of the exploration and the exceptions their handlers
\* raise.
MainCmds == {"start", "stop", "restart", "status", "create", "rename", "rm",
             "config", "update", "install", "uninstall", "exec"}

Exceptions == {"FileNotFoundError", "FileExistsError", "OSError", "ValueError",
               "ConnectionError", "PermissionError"}

\* args.err_template.format(args=args)
err_msg(args) ==
    CASE args.cmd = "config" -> <<"configure '", args.instance, "'">>
      [] args.cmd = "exec" -> <<"execute command on ", args.instance>>
      [] args.cmd \in {"install", "uninstall"} ->
             <<args.cmd, " plugins on ", args.instance>>
      [] args.cmd = "rm" -> <<"remove '", args.instance, "'">>
      [] args.cmd = "status" ->
             <<"retrieve ", args.cmd, " of '", args.instance, "'">>
      [] OTHER -> <<args.cmd, " instance '", args.instance, "'">>

Traceback(ex) == << <<"Traceback (most recent call last):">>, <<ex>> >>

\* main with the interrupt handled like any other exception.
run_func_catch_all(args, outcome) ==
    IF outcome = "return"
    THEN [status |-> 0, printed |-> <<>>]
    ELSE IF args.verbose
    THEN [status |-> 1, printed |-> Traceback(outcome)]
    ELSE [status |-> 1,
          printed |-> << <<"Unable to ", err_msg(args), ": ", outcome>> >>]

\* try: args.func(**safe_kwargs), with its two except clauses: what the
\* process prints and the status it exits with. outcome is "return", the
\* exception raised, or "KeyboardInterrupt". An exception re-raised under
\* verbose leaves the interpreter with a traceback and status 1.
run_func(args, outcome) ==
    IF outcome = "return"
    THEN [status |-> 0, printed |-> <<>>]
    ELSE IF outcome = "KeyboardInterrupt"
    THEN [status |-> 130, printed |-> << <<"Interrupted by User">> >>]
    ELSE IF args.verbose
    THEN [status |-> 1, printed |-> Traceback(outcome)]
    ELSE [status |-> 1,
          printed |-> << <<"Unable to ", err_msg(args), ": ", outcome>> >>]

\* args = get_parser().parse_args()
MainBegin ==
    /\ pc \in {"idle", "exited"}
    /\ \E c \in MainCmds, n \in Names, v \in BOOLEAN :
          inv' = [DefaultInv EXCEPT !.cmd = c, !.instance = n, !.verbose = v]
    /\ loc' = DefaultLoc
    /\ pc' = "main_elevate"
    /\ result' = "running"
    /\ events' = <<>>
    /\ UNCHANGED <<dirs, jars, units, snap, prev, pfile, pupd, cred, plugins>>

\* apply_permlevel(plvl) inside its try: the elevation goes through, or
\* raises KeyError (unknown user) or OSError.
MainElevate ==
    /\ pc = "main_elevate"
    /\ \E ex \in {"none", "KeyError", "OSError"} :
          IF ex = "none"
          THEN /\ cred' = apply_permlevel(get_permlevel(inv, Elevation(inv.cmd)))
               /\ pc' = "main_func"
               /\ UNCHANGED <<loc, result>>
          ELSE /\ loc' = [loc EXCEPT
                             !.status = 1,
                             !.printed = IF inv.verbose THEN Traceback(ex)
                                         ELSE << <<"Process Elevation failed: ", ex>> >>]
               /\ pc' = "exited"
               /\ result' = ex
               /\ UNCHANGED cred
    /\ UNCHANGED <<dirs, jars, units, inv, events, snap, prev, pfile, pupd, plugins>>

\* The handler runs and ends one way or another; main turns that into
\* output and exit status.
MainFunc ==
    /\ pc = "main_func"
    /\ \E outcome \in {"return", "KeyboardInterrupt"} \cup Exceptions :
          /\ result' = IF outcome = "return" THEN "ok" ELSE outcome
          /\ loc' = [loc EXCEPT !.status = run_func(inv, outcome).status,
                                !.printed = run_func(inv, outcome).printed]
    /\ events' = Append(events, "func")
    /\ pc' = "exited"
    /\ UNCHANGED <<dirs, jars, units, inv, snap, prev, pfile, pupd, cred, plugins>>

\* Every sub-command of get_parser, and the store_true options of each that
\* an elevation dict refers to.
SubCommands ==
    {"attach", "config", "create", "exec", "export", "import", "logs",
     "inspect", "install", "ls", "pull", "rename", "restart", "rm", "rmj",
     "start", "status", "stop", "uninstall", "update", "shell", "write-cfg"}

FlagsOf(cmd) ==
    CASE cmd = "create" -> {"start"}
      [] cmd \in {"config", "update", "uninstall", "install"} -> {"restart"}
      [] cmd \in {"start", "stop"} -> {"persistent"}
      [] cmd = "write-cfg" -> {"user"}
      [] OTHER -> {}

\* args = get_parser().parse_args() for any sub-command and any choice of
\* its options, in a process of the user who typed the command.
ParseArgs ==
    /\ pc \in {"idle", "exited"}
    /\ \E c \in SubCommands, set \in SUBSET {"start", "restart", "persistent", "user"},
          v \in BOOLEAN :
          /\ set \subseteq FlagsOf(c)
          /\ inv' = [DefaultInv EXCEPT !.cmd = c, !.instance = "mc1",
                                       !.verbose = v,
                                       !.start = "start" \in set,
                                       !.restart = "restart" \in set,
                                       !.persistent = "persistent" \in set,
                                       !.user = "user" \in set]
    /\ cred' = ProcessOf("login_user")
    /\ loc' = DefaultLoc
    /\ pc' = "main_elevate"
    /\ result' = "running"
    /\ events' = <<>>
    /\ UNCHANGED <<dirs, jars, units, snap, prev, pfile, pupd, plugins>>

\* The fields argparse sets on every namespace beside the options of the
\* sub-command.
Bookkeeping == {"action", "verbose", "func", "err_template", "elevation"}

\* The destinations of the arguments and defaults each sub-parser declares.
ParsedArgs(cmd) ==
    CASE cmd = "attach" -> {"instance"}
      [] cmd = "config" -> {"edit_paths", "editor", "instance", "memory", "properties", "restart"}
      [] cmd = "create" -> {"instance", "literal_url", "memory", "properties", "source", "start"}
      [] cmd = "exec" -> {"command", "instance"}
      [] cmd = "export" -> {"compress", "instance", "world_only"}
      [] cmd = "import" -> {"instance", "world_only", "zip_path"}
      [] cmd = "logs" -> {"instance", "limit"}
      [] cmd = "inspect" -> {"instance"}
      [] cmd = "install" -> {"autoupgrade", "instance", "restart", "sources"}
      [] cmd = "ls" -> {"filter_str", "what"}
      [] cmd = "pull" -> {"literal_url", "source"}
      [] cmd = "rename" -> {"instance", "new_name"}
      [] cmd = "restart" -> {"instance", "message"}
      [] cmd = "rm" -> {"force", "instance"}
      [] cmd = "rmj" -> {"force", "source"}
      [] cmd = "start" -> {"instance", "persistent"}
      [] cmd = "status" -> {"instance"}
      [] cmd = "stop" -> {"instance", "message", "persistent"}
      [] cmd = "uninstall" -> {"force", "instance", "plugins", "restart"}
      [] cmd = "update" -> {"instance", "literal_url", "restart", "source"}
      [] cmd = "shell" -> {"instance_subfolder", "shell_path"}
      [] cmd = "write-cfg" -> {"user"}

\* The signature of the handler registered for each sub-command: its
\* parameters in order, and those without a default value.
Signature(cmd) ==
    CASE cmd = "attach" -> [params |-> <<"instance">>, required |-> {"instance"}]
      [] cmd = "config" -> [params |-> <<"instance", "editor", "properties", "edit_paths", "memory", "restart">>, required |-> {"instance", "editor"}]
      [] cmd = "create" -> [params |-> <<"instance", "source", "memory", "properties", "literal_url", "start">>, required |-> {"instance", "source", "memory", "properties"}]
      [] cmd = "exec" -> [params |-> <<"instance", "command", "pollrate", "max_retries", "max_flush_retries">>, required |-> {"instance", "command"}]
      [] cmd = "export" -> [params |-> <<"instance", "zip_path", "compress", "world_only">>, required |-> {"instance"}]
      [] cmd = "import" -> [params |-> <<"zip_path", "instance", "world_only">>, required |-> {"zip_path"}]
      [] cmd = "logs" -> [params |-> <<"instance", "limit">>, required |-> {"instance"}]
      [] cmd = "inspect" -> [params |-> <<"instance">>, required |-> {"instance"}]
      [] cmd = "install" -> [params |-> <<"instance", "sources", "restart", "autoupgrade">>, required |-> {"instance", "sources"}]
      [] cmd = "ls" -> [params |-> <<"what", "filter_str">>, required |-> {"what"}]
      [] cmd = "pull" -> [params |-> <<"source", "literal_url">>, required |-> {"source"}]
      [] cmd = "rename" -> [params |-> <<"instance", "new_name">>, required |-> {"instance", "new_name"}]
      [] cmd = "restart" -> [params |-> <<"instance", "action", "message", "persistent">>, required |-> {"instance", "action"}]
      [] cmd = "rm" -> [params |-> <<"instance", "force">>, required |-> {"instance"}]
      [] cmd = "rmj" -> [params |-> <<"source", "force">>, required |-> {"source"}]
      [] cmd = "start" -> [params |-> <<"instance", "action", "message", "persistent">>, required |-> {"instance", "action"}]
      [] cmd = "status" -> [params |-> <<"instance">>, required |-> {"instance"}]
      [] cmd = "stop" -> [params |-> <<"instance", "action", "message", "persistent">>, required |-> {"instance", "action"}]
      [] cmd = "uninstall" -> [params |-> <<"instance", "plugins", "restart", "force">>, required |-> {"instance", "plugins"}]
      [] cmd = "update" -> [params |-> <<"instance", "source", "literal_url", "restart">>, required |-> {"instance", "source"}]
      [] cmd = "shell" -> [params |-> <<"instance_subfolder", "shell_path">>, required |-> {"instance_subfolder", "shell_path"}]
      [] cmd = "write-cfg" -> [params |-> <<"user">>, required |-> {}]

\* vars(args)
vars_of(args) == ParsedArgs(args.cmd) \cup Bookkeeping

\* filter_args keeping only the parameters that have no default.
filter_args_required(unfiltered_kwargs, sig) ==
    {sig.params[i] : i \in DOMAIN sig.params}
        \cap sig.required \cap unfiltered_kwargs

\* filter_args: the keys of the keyword arguments that are parameters of
\* the function.
filter_args(unfiltered_kwargs, sig) ==
    {sig.params[i] : i \in DOMAIN sig.params} \cap unfiltered_kwargs

\* safe_kwargs = filter_args(vars(args), args.func)
FilterArgs ==
    /\ pc = "main_func"
    /\ loc' = [loc EXCEPT !.safe_kwargs = filter_args(vars_of(inv), Signature(inv.cmd))]
    /\ pc' = "main_call"
    /\ UNCHANGED <<dirs, jars, units, inv, result, events, snap, prev, pfile,
                   pupd, cred, plugins>>

\* args.func(**safe_kwargs): a call that lacks a required parameter raises
\* TypeError before the handler runs.
CallFunc ==
    /\ pc = "main_call"
    /\ IF Signature(inv.cmd).required \subseteq loc.safe_kwargs
       THEN \E outcome \in {"return", "KeyboardInterrupt"} \cup Exceptions :
               /\ result' = IF outcome = "return" THEN "ok" ELSE outcome
               /\ loc' = [loc EXCEPT !.status = run_func(inv, outcome).status,
                                     !.printed = run_func(inv, outcome).printed]
       ELSE /\ result' = "TypeError"
            /\ loc' = [loc EXCEPT !.status = run_func(inv, "TypeError").status,
                                  !.printed = run_func(inv, "TypeError").printed]
    /\ events' = Append(events, "func")
    /\ pc' = "exited"
    /\ UNCHANGED <<dirs, jars, units, inv, snap, prev, pfile, pupd, cred, plugins>>

\* ------------------------------------------------------------------------
\* proc.mc_exec
\* ------------------------------------------------------------------------
max_retries == 24

max_flush_retries == 4

ExecBegin ==
    \E n \in Names :
        /\ Begin([DefaultInv EXCEPT !.cmd = "exec", !.instance = n], "exec_check")
        /\ UNCHANGED <<dirs, jars, units, pfile, pupd, plugins>>

\* The two checks, then the command is stuffed into the console and the
\* loop starts with i = 0.
ExecCheck ==
    /\ pc = "exec_check"
    /\ IF ~is_active(units[inv.instance])
       THEN Raise("OSError") /\ UNCHANGED loc
       ELSE \E ready \in BOOLEAN :
               IF ~ready
               THEN Raise("ConnectionError") /\ UNCHANGED loc
               ELSE /\ loc' = [loc EXCEPT !.i = 0, !.polls = 0]
                    /\ Goto("exec_poll")
    /\ UNCHANGED <<dirs, jars, units, inv, events, snap, prev, pfile, pupd, cred,
                   plugins>>

\* One round of `while i < max_retries`: i += 1, the log is read again, and
\* every line beyond old_count sets i = max_retries - max_flush_retries.
\* output says whether the log has grown since the last round.
ExecPoll ==
    /\ pc = "exec_poll"
    /\ IF loc.i < max_retries
       THEN \E output \in BOOLEAN :
               /\ loc' = [loc EXCEPT
                             !.i = IF output THEN max_retries - max_flush_retries
                                   ELSE @ + 1,
                             !.polls = IF @ < MaxExecPolls THEN @ + 1 ELSE @]
               /\ events' = IF output /\ Len(events) = 0
                             THEN Append(events, "output") ELSE events
               /\ Goto("exec_poll")
       ELSE Finish /\ UNCHANGED <<loc, events>>
    /\ UNCHANGED <<dirs, jars, units, inv, snap, prev, pfile, pupd, cred, plugins>>

\* ------------------------------------------------------------------------
\* Plugins (plugin.py)
\* ------------------------------------------------------------------------
\* File names and search terms are sequences of characters.
JarSuffix == <<".", "j", "a", "r">>

ZipSuffix == <<".", "z", "i", "p">>

\* Path.suffix: the name from its last dot on, empty when the name has no
\* dot or its last dot is its first or its last character.
suffix(name) ==
    LET dots == {i \in 1..Len(name) : name[i] = "."}
        last == CHOOSE i \in dots : \A k \in dots : k <= i
    IN IF dots # {} /\ 1 < last /\ last < Len(name)
       THEN SubSeq(name, last, Len(name))
       ELSE <<>>

LowerChar(c) ==
    CASE c = "X" -> "x"
      [] c = "Y" -> "y"
      [] c = "Z" -> "z"
      [] OTHER -> c

\* str.lower
lower(str) == [i \in DOMAIN str |-> LowerChar(str[i])]

\* sub in str
Contains(str, sub) ==
    \E i \in 1..(Len(str) - Len(sub) + 1) : SubSeq(str, i, i + Len(sub) - 1) = sub

\* The code points by which Python orders strings.
CodePoint(c) ==
    CASE c = "." -> 46
      [] c = "0" -> 48
      [] c = "1" -> 49
      [] c = "2" -> 50
      [] c = "3" -> 51
      [] c = "X" -> 88
      [] c = "Y" -> 89
      [] c = "Z" -> 90
      [] c = "a" -> 97
      [] c = "b" -> 98
      [] c = "i" -> 105
      [] c = "j" -> 106
      [] c = "p" -> 112
      [] c = "r" -> 114
      [] c = "t" -> 116
      [] c = "x" -> 120
      [] c = "y" -> 121
      [] c = "z" -> 122

\* x < y for strings
StrLess(x, y) ==
    \E i \in 1..(Len(y)) :
        /\ \A k \in 1..(i - 1) : k <= Len(x) /\ x[k] = y[k]
        /\ \/ i = Len(x) + 1
           \/ i <= Len(x) /\ CodePoint(x[i]) < CodePoint(y[i])

\* difflib.SequenceMatcher without junk (autojunk needs 200 elements).
\* Length of the common run of a from i and b from j, a up to ahi and b up
\* to bhi.
RunLength(a, b, i, j, ahi, bhi) ==
    LET limit == IF ahi - i < bhi - j THEN ahi - i + 1 ELSE bhi - j + 1
    IN CHOOSE k \in 0..limit :
          /\ \A t \in 0..(k - 1) : a[i + t] = b[j + t]
          /\ k = limit \/ a[i + k] # b[j + k]

\* Of the starts whose run has the greatest size the one that is earliest
\* in a and, among those, earliest in b, with its size.
EarliestOf(longest, size) ==
    LET first == CHOOSE s \in longest :
                    \A o \in longest : s[1] < o[1] \/ (s[1] = o[1] /\ s[2] <= o[2])
    IN <<first[1], first[2], size[first]>>

LongestOf(size) ==
    EarliestOf({s \in DOMAIN size : \A o \in DOMAIN size : size[o] <= size[s]}, size)

\* find_longest_match: the longest common run within a[alo..ahi] and
\* b[blo..bhi].
find_longest_match(a, b, alo, ahi, blo, bhi) ==
    IF alo > ahi \/ blo > bhi
    THEN <<alo, blo, 0>>
    ELSE LongestOf([s \in (alo..ahi) \X (blo..bhi) |->
                       RunLength(a, b, s[1], s[2], ahi, bhi)])

\* get_matching_blocks: the sizes of the longest run and of the blocks
\* found to its left and to its right, added up. ratio() is 2.0 * M / T
\* with M this sum and T the two lengths added; M is kept here and the
\* division is left to the comparisons.
MatchesOf(a, b) ==
    LET matches[r \in (1..(Len(a) + 1)) \X (0..Len(a))
                         \X (1..(Len(b) + 1)) \X (0..Len(b))] ==
            LET around(m) ==
                    IF m[3] = 0 THEN 0
                    ELSE m[3] + matches[<<r[1], m[1] - 1, r[3], m[2] - 1>>]
                              + matches[<<m[1] + m[3], r[2], m[2] + m[3], r[4]>>]
            IN around(find_longest_match(a, b, r[1], r[2], r[3], r[4]))
    IN matches[<<1, Len(a), 1, Len(b)>>]

\* The plugin files of the exploration: three versions of one plugin in
\* the folder and a fourth to install, an unrelated plugin, a text file,
\* and an archive.
Ab0Jar == <<"a", "b", "0">> \o JarSuffix

Ab1Jar == <<"a", "b", "1">> \o JarSuffix

Ab2Jar == <<"a", "b", "2">> \o JarSuffix

Ab3Jar == <<"a", "b", "3">> \o JarSuffix

XyzJar == <<"X", "Y", "Z">> \o JarSuffix

AbTxt == <<"a", "b", ".", "t", "x", "t">>

PZip == <<"p">> \o ZipSuffix

\* ratio(a, b) >= 0.6, the default cutoff of get_close_matches
is_close(a, b) == 2 * 10 * MatchesOf(a, b) >= 6 * (Len(a) + Len(b))

\* (ratio, name) of q > (ratio, name) of p, for two possibilities kept as
\* <<M, T, name>>
Outranks(q, p) ==
    \/ q[1] * p[2] > p[1] * q[2]
    \/ q[1] * p[2] = p[1] * q[2] /\ StrLess(p[3], q[3])

\* difflib.get_close_matches(word, possibilities, n): of the possibilities
\* whose ratio against word reaches the cutoff the n largest by
\* (ratio, name). seq1 is the possibility and seq2 the word.
nlargest(n, close) ==
    {p \in close : Cardinality({q \in close : Outranks(q, p)}) < n}

get_close_matches(word, possibilities, n) ==
    LET scored == {<<MatchesOf(x, word), Len(x) + Len(word), x>> :
                      x \in possibilities}
    IN {p[3] : p \in nlargest(n, {p \in scored : 2 * 10 * p[1] >= 6 * p[2]})}

\* The .jar entries of an archive.
ZipEntries(archive) == {Ab2Jar}

\* The folders an instance may have when the exploration starts.
PluginDirs ==
    {[exists |-> TRUE, files |-> f] :
        f \in {{Ab1Jar, XyzJar, AbTxt}, {Ab0Jar, Ab1Jar, Ab3Jar, XyzJar}}}

\* Local files handed to install (URLs are left out).
SourceArgs == {{}, {Ab2Jar}, {Ab2Jar, XyzJar}, {PZip}, {Ab2Jar, AbTxt}}

\* Search terms handed to uninstall.
TermArgs == {<< <<"a", "b">> >>, << <<"x", "y">> >>,
             << <<"a", "b", "1">>, <<"x", "y">> >>, << <<"z", "z">> >>}

\* x.name for x in plugin_path.iterdir() if x.suffix == ".jar"
jar_names(folder) == {x \in folder.files : suffix(x) = JarSuffix}

\* storage.install_bare_plugin, storage.install_compressed_plugin: the
\* names a source installs, an existing file of the same name being
\* overwritten.
installed_by(source) ==
    IF suffix(source) = ZipSuffix THEN ZipEntries(source) ELSE {source}

InstallBegin ==
    \E n \in Names, srcs \in SourceArgs, r \in BOOLEAN, a \in BOOLEAN :
        /\ Begin([DefaultInv EXCEPT !.cmd = "install", !.instance = n,
                                    !.sources = srcs, !.restart = r,
                                    !.autoupgrade = a],
                 "inst_check")
        /\ UNCHANGED <<dirs, jars, units, pfile, pupd, plugins>>

\* The checks of install; loc.seen keeps the unit state the command found.
InstallCheck ==
    /\ pc = "inst_check"
    /\ IF ~dirs[inv.instance].exists \/ ~plugins[inv.instance].exists
       THEN Raise("FileNotFoundError") /\ UNCHANGED loc
       ELSE IF inv.sources = {}
       THEN Raise("ValueError") /\ UNCHANGED loc
       ELSE /\ loc' = [loc EXCEPT !.todo = inv.sources,
                                  !.seen = units[inv.instance].ActiveState]
            /\ Goto("inst_copy")
    /\ UNCHANGED <<dirs, jars, units, inv, events, snap, prev, pfile, pupd, cred,
                   plugins>>

\* One round of the loop over the sources, which are taken in the order
\* the set yields them.
InstallCopy ==
    /\ pc = "inst_copy"
    /\ IF loc.todo = {}
       THEN Goto("inst_restart") /\ UNCHANGED <<loc, plugins, events>>
       ELSE \E source \in loc.todo :
               IF suffix(source) \in {ZipSuffix, JarSuffix}
               THEN /\ plugins' = [plugins EXCEPT ![inv.instance].files =
                                      @ \cup installed_by(source)]
                    /\ loc' = [loc EXCEPT !.todo = @ \ {source},
                                          !.installed = @ \cup installed_by(source)]
                    /\ events' = Append(events, "install")
                    /\ Goto("inst_copy")
               ELSE Raise("ValueError") /\ UNCHANGED <<loc, plugins, events>>
    /\ UNCHANGED <<dirs, jars, units, inv, snap, prev, pfile, pupd, cred>>

\* if restart: common.notified_set_status(instance, "restart", ...)
InstallRestart ==
    /\ pc = "inst_restart"
    /\ IF inv.restart
       THEN CallNotified("restart", FALSE, "inst_auto")
       ELSE Goto("inst_auto") /\ UNCHANGED loc
    /\ UNCHANGED <<dirs, jars, units, inv, events, snap, prev, pfile, pupd, cred,
                   plugins>>

\* auto_uninstall taking its candidates from all installed names.
auto_resolve_any(installed_names, new_plugins) ==
    UNION {get_close_matches(plugin_name, installed_names, 2) :
              plugin_name \in new_plugins}

\* auto_uninstall: the two closest of the old names for each new plugin.
auto_resolve(installed_names, new_plugins) ==
    LET old_installed == installed_names \ new_plugins
    IN UNION {get_close_matches(plugin_name, old_installed, 2) :
                 plugin_name \in new_plugins}

\* if autoupgrade: auto_uninstall(instance, installed, False). loc.listed
\* keeps the folder as auto_uninstall found it, loc.answer the operator's
\* answer to the prompt.
InstallAuto ==
    /\ pc = "inst_auto"
    /\ IF ~inv.autoupgrade
       THEN Finish /\ UNCHANGED <<loc, plugins, events>>
       ELSE \E resolved_names \in
                  {auto_resolve(jar_names(plugins[inv.instance]), loc.installed)} :
            LET listed == [loc EXCEPT !.listed = plugins[inv.instance].files,
                                      !.resolved_names = resolved_names]
            IN IF resolved_names = {}
               THEN Finish /\ loc' = listed /\ UNCHANGED <<plugins, events>>
               ELSE \E answer \in {"y", "n", "interrupt"} :
                       IF answer = "y"
                       THEN /\ plugins' = [plugins EXCEPT ![inv.instance].files =
                                              @ \ resolved_names]
                            /\ loc' = [listed EXCEPT !.answer = answer]
                            /\ events' = Append(events, "auto_unlink")
                            /\ Finish
                       ELSE /\ loc' = [listed EXCEPT !.answer = answer]
                            /\ UNCHANGED <<plugins, events>>
                            /\ IF answer = "n" THEN Finish
                               ELSE Raise("KeyboardInterrupt")
    /\ UNCHANGED <<dirs, jars, units, inv, snap, prev, pfile, pupd, cred>>

UninstallBegin ==
    \E n \in Names, terms \in TermArgs, r \in BOOLEAN, f \in BOOLEAN :
        /\ Begin([DefaultInv EXCEPT !.cmd = "uninstall", !.instance = n,
                                    !.plugins = terms, !.restart = r,
                                    !.force = f],
                 "unin_check")
        /\ UNCHANGED <<dirs, jars, units, pfile, pupd, plugins>>

UninstallCheck ==
    /\ pc = "unin_check"
    /\ IF ~dirs[inv.instance].exists \/ ~plugins[inv.instance].exists
       THEN Raise("FileNotFoundError") /\ UNCHANGED loc
       ELSE /\ loc' = [loc EXCEPT !.seen = units[inv.instance].ActiveState]
            /\ Goto("unin_resolve")
    /\ UNCHANGED <<dirs, jars, units, inv, events, snap, prev, pfile, pupd, cred,
                   plugins>>

\* The loop over the search terms. installed_names is a generator
\* expression: the search term that iterates it first uses it up, and the
\* terms after it iterate over nothing.
RECURSIVE resolve_names(_, _, _)
resolve_names(search_terms, installed_names, resolved_names) ==
    IF search_terms = <<>>
    THEN resolved_names
    ELSE resolve_names(
             Tail(search_terms), {},
             resolved_names \cup
                 {x \in installed_names : Contains(lower(x), lower(Head(search_terms)))})

UninstallResolve ==
    /\ pc = "unin_resolve"
    /\ \E resolved_names \in
           {resolve_names(inv.plugins, jar_names(plugins[inv.instance]), {})} :
          /\ loc' = [loc EXCEPT !.listed = plugins[inv.instance].files,
                                !.resolved_names = resolved_names]
          /\ IF resolved_names = {} THEN Finish ELSE Goto("unin_prompt")
    /\ UNCHANGED <<dirs, jars, units, inv, events, snap, prev, pfile, pupd, cred,
                   plugins>>

\* if force or visuals.bool_selector("Is this ok?"), then the stop when a
\* restart was asked for. loc.answer keeps the operator's answer; with
\* force there is no prompt.
UninstallPrompt ==
    /\ pc = "unin_prompt"
    /\ \E answer \in IF inv.force THEN {"-"} ELSE {"y", "n", "interrupt"} :
          IF inv.force \/ answer = "y"
          THEN IF inv.restart
               THEN /\ loc' = [loc EXCEPT !.answer = answer, !.action = "stop",
                                          !.persistent = FALSE,
                                          !.ret = "unin_unlink", !.state = "None"]
                    /\ Goto("nss_persist")
               ELSE /\ loc' = [loc EXCEPT !.answer = answer]
                    /\ Goto("unin_unlink")
          ELSE /\ loc' = [loc EXCEPT !.answer = answer]
               /\ IF answer = "n" THEN Finish ELSE Raise("KeyboardInterrupt")
    /\ UNCHANGED <<dirs, jars, units, inv, events, snap, prev, pfile, pupd, cred,
                   plugins>>

\* The resolved files are unlinked, then the start when a restart was
\* asked for.
UninstallUnlink ==
    /\ pc = "unin_unlink"
    /\ plugins' = [plugins EXCEPT ![inv.instance].files = @ \ loc.resolved_names]
    /\ events' = Append(events, "unlink")
    /\ IF inv.restart
       THEN CallNotified("start", FALSE, "return")
       ELSE Finish /\ UNCHANGED loc
    /\ UNCHANGED <<dirs, jars, units, inv, snap, prev, pfile, pupd, cred>>

\* ------------------------------------------------------------------------
\* Jar cache paths (storage.py)
\* ------------------------------------------------------------------------
\* A type id is a sequence of characters, a path below jars/ the sequence
\* of its parts.
TypeChars == {"1", "."}

\* str.replace(old, new) for single characters.
replace(str, old, new) == [i \in DOMAIN str |-> IF str[i] = old THEN new ELSE str[i]]

\* str.split(sep) for a single character.
RECURSIVE split(_, _)
split(str, sep) ==
    LET at == {i \in DOMAIN str : str[i] = sep}
    IN IF at = {}
       THEN <<str>>
       ELSE LET first == CHOOSE i \in at : \A k \in at : i <= k
            IN <<SubSeq(str, 1, first - 1)>>
                   \o split(SubSeq(str, first + 1, Len(str)), sep)

\* sep.join(parts)
RECURSIVE join(_, _)
join(parts, sep) ==
    IF parts = <<>> THEN <<>>
    ELSE IF Len(parts) = 1 THEN parts[1]
    ELSE parts[1] \o <<sep>> \o join(Tail(parts), sep)

\* bare_path / str: pathlib keeps neither empty parts nor "." parts.
RECURSIVE path_parts(_)
path_parts(parts) ==
    IF parts = <<>> THEN <<>>
    ELSE IF parts[1] \in {<<>>, <<".">>}
    THEN path_parts(Tail(parts))
    ELSE <<parts[1]>> \o path_parts(Tail(parts))

\* Path.stem cutting the name at its first dot.
stem_first_dot(name) ==
    LET dots == {i \in 1..Len(name) : name[i] = "."}
        first == CHOOSE i \in dots : \A k \in dots : i <= k
    IN IF dots # {} /\ 1 < first
       THEN SubSeq(name, 1, first - 1)
       ELSE name

\* Path.stem: the name without its suffix.
stem(name) == SubSeq(name, 1, Len(name) - Len(suffix(name)))

\* storage.get_jar_path(type_id), relative to the jar cache.
get_jar_path(type_id) ==
    IF ":" \in Range(type_id)
    THEN path_parts(split(replace(type_id, ":", "/") \o JarSuffix, "/"))
    ELSE <<"ValueError">>

\* storage.get_type_id(jar_path) for a path below the jar cache.
get_type_id(jar_path) ==
    IF Len(jar_path) < 2
    THEN <<"ValueError">>
    ELSE join(SubSeq(jar_path, 1, Len(jar_path) - 1)
                  \o <<stem(jar_path[Len(jar_path)])>>, ":")

\* The components of type ids: names of directory entries.
PartNames ==
    UNION {[1..k -> TypeChars] : k \in 1..MaxPartLen} \ {<<".">>, <<".", ".">>}

\* type:version and type:version:build
TypeIds ==
    {join(<<t, v>>, ":") : t \in PartNames, v \in PartNames}
        \cup {join(<<t, v, b>>, ":") : t \in PartNames, v \in PartNames, b \in PartNames}

\* A type id reaches get_jar_path (pull, remove_jar).
JarPathBegin ==
    \E type_id \in TypeIds :
        /\ Begin([DefaultInv EXCEPT !.cmd = "jar_path", !.type_id = type_id],
                 "get_jar_path")
        /\ UNCHANGED <<dirs, jars, units, pfile, pupd, plugins>>

GetJarPath ==
    /\ pc = "get_jar_path"
    /\ loc' = [loc EXCEPT !.jar_path = get_jar_path(inv.type_id)]
    /\ Goto("get_type_id")
    /\ UNCHANGED <<dirs, jars, units, inv, events, snap, prev, pfile, pupd, cred, plugins>>

\* The listing of the cache turns the path into a type id again.
GetTypeId ==
    /\ pc = "get_type_id"
    /\ loc' = [loc EXCEPT !.type_id = get_type_id(loc.jar_path)]
    /\ Finish
    /\ UNCHANGED <<dirs, jars, units, inv, events, snap, prev, pfile, pupd, cred, plugins>>

\* ------------------------------------------------------------------------
\* SpecProps: set_properties applied repeatedly to one properties file
\* ------------------------------------------------------------------------
NoUpdate == [applied |-> FALSE, dict |-> <<>>]

\* Lines a properties file may hold before mcctl first touches it.
PropLines == StrUpTo(MaxLineLen)

PropFiles == {File(l) : l \in UNION {[1..n -> PropLines] : n \in 0..MaxLines}}

\* Keys and values of update dicts: keys as properties_to_dict yields them
\* (no "="), values may hold "=".
UpdKeys == {<<"A">>, <<"B">>}

UpdValues == {<<>>, <<"A">>, <<"B", "=">>}

UpdPairs == UpdKeys \X UpdValues

Updates ==
    {<<>>} \cup {<<p>> : p \in UpdPairs}
           \cup {<<p, q>> : <<p, q>> \in {pq \in UpdPairs \X UpdPairs : pq[1][1] # pq[2][1]}}

SetProperties ==
    \E u \in Updates :
        /\ pfile' = set_properties(pfile, u)
        /\ pupd' = [applied |-> TRUE, dict |-> u]
        /\ UNCHANGED hostvars

\* ------------------------------------------------------------------------
\* Specifications
\* ------------------------------------------------------------------------
HostIdle ==
    /\ inv = DefaultInv
    /\ pc = "idle"
    /\ loc = DefaultLoc
    /\ result = "none"
    /\ events = <<>>
    /\ snap = dirs
    /\ prev = "-"
    /\ cred = ProcessOf("login_user")

PropsIdle == pfile = NoFile /\ pupd = NoUpdate

\* No instance has a plugins folder.
NoPluginDirs == plugins = [n \in Names |-> NoPlugins]

\* set_properties on its own, from every small properties file.
InitProps ==
    /\ pfile \in PropFiles \cup {NoFile}
    /\ pupd = NoUpdate
    /\ dirs = [n \in Names |-> NoDir]
    /\ jars = NoJars
    /\ units = [n \in Names |-> NoUnit]
    /\ HostIdle
    /\ NoPluginDirs

NextProps == SetProperties

SpecProps == InitProps /\ [][NextProps]_vars

\* create on a clean host.
InitCreate ==
    /\ dirs = [n \in Names |-> NoDir]
    /\ jars = NoJars
    /\ units = [n \in Names |-> NoUnit]
    /\ HostIdle
    /\ NoPluginDirs
    /\ PropsIdle

NextCreate ==
    \/ CreateBegin
    \/ CreateExists
    \/ CreateDirs
    \/ CreatePull
    \/ CreateSymlink
    \/ CreatePreStart
    \/ CreateEula
    \/ CreateConfig
    \/ CreateDone
    \/ NssPersist
    \/ SetStatusCall
    \/ SetStatusPoll
    \/ SetStatusCheck
    \/ SdDispatch
    \/ SdSettle

SpecCreate == InitCreate /\ [][NextCreate]_vars

\* The lifecycle of an installed instance mc1 (as create leaves it), with
\* the name mc2 free or taken by a second installed instance.
Installed ==
    [exists |-> TRUE, jar |-> "vanilla:1", eula |-> "true",
     props |-> GeneratedProps, env |-> NoFile, tmp |-> {}]

Init ==
    /\ dirs \in {[mc1 |-> Installed, mc2 |-> d] : d \in {NoDir, Installed}}
    /\ jars = Cached({"vanilla:1"})
    /\ units = [n \in Names |-> NoUnit]
    /\ HostIdle
    /\ NoPluginDirs
    /\ PropsIdle

Next ==
    \/ NotifiedBegin
    \/ NotifiedEnter
    \/ NssPersist
    \/ NssNotify
    \/ SetStatusCall
    \/ SetStatusPoll
    \/ SetStatusCheck
    \/ RenameBegin
    \/ RenameCheck
    \/ RenameMove
    \/ RemoveBegin
    \/ RemoveCheck
    \/ RemovePrompt
    \/ RemoveDelete
    \/ SdDispatch
    \/ SdSettle

Spec == Init /\ [][Next]_vars

\* The status surfaces, for an installed instance whose unit is in any
\* state and may settle while the command runs.
InitStatus ==
    /\ dirs = [mc1 |-> Installed, mc2 |-> NoDir]
    /\ jars = Cached({"vanilla:1"})
    /\ units \in {[mc1 |-> [ActiveState |-> a, enabled |-> e, job |-> "none"],
                   mc2 |-> NoUnit] :
                     a \in {"inactive", "activating", "active", "deactivating", "failed"},
                     e \in BOOLEAN}
    /\ HostIdle
    /\ NoPluginDirs
    /\ PropsIdle

NextStatus ==
    \/ StatusBegin
    \/ StatusProbe
    \/ StatusUnit
    \/ SdSettle

SpecStatus == InitStatus /\ [][NextStatus]_vars

\* configure on an installed instance mc1 whose unit is stopped or
\* running; server.properties is as generated or already rewritten by an
\* earlier merge.
InitConfigure ==
    /\ dirs \in {[mc1 |-> [Installed EXCEPT !.props = f, !.env = e], mc2 |-> NoDir] :
                    f \in {GeneratedProps, File(<< <<"B", "=", "1">> >>)},
                    e \in {NoFile, File(<< MEM \o <<"=", "1", "G">> >>)}}
    /\ jars = Cached({"vanilla:1"})
    /\ units \in {[mc1 |-> [NoUnit EXCEPT !.ActiveState = a], mc2 |-> NoUnit] :
                     a \in {"inactive", "active"}}
    /\ HostIdle
    /\ NoPluginDirs
    /\ PropsIdle

NextConfigure ==
    \/ ConfigureBegin
    \/ ConfigureArgs
    \/ ConfigureProps
    \/ ConfigureMemory
    \/ ConfigureEdit
    \/ ConfigureDecide
    \/ ConfigureSwap
    \/ NssPersist
    \/ NssNotify
    \/ SetStatusCall
    \/ SetStatusPoll
    \/ SetStatusCheck
    \/ SdDispatch
    \/ SdSettle

SpecConfigure == InitConfigure /\ [][NextConfigure]_vars

\* update of an installed instance mc1 that runs the old binary, its unit
\* stopped or running; the new binary is cached already or not.
InitUpdate ==
    /\ dirs = [mc1 |-> [Installed EXCEPT !.jar = OldTag], mc2 |-> NoDir]
    /\ jars \in {Cached({OldTag}), Cached({OldTag, "vanilla:1"})}
    /\ units \in {[mc1 |-> [NoUnit EXCEPT !.ActiveState = a], mc2 |-> NoUnit] :
                     a \in {"inactive", "active"}}
    /\ HostIdle
    /\ NoPluginDirs
    /\ PropsIdle

NextUpdate ==
    \/ UpdateBegin
    \/ UpdatePull
    \/ UpdateSymlink
    \/ UpdateDecide
    \/ NssPersist
    \/ NssNotify
    \/ SetStatusCall
    \/ SetStatusPoll
    \/ SetStatusCheck
    \/ SdDispatch
    \/ SdSettle

SpecUpdate == InitUpdate /\ [][NextUpdate]_vars

\* install and uninstall on an installed instance mc1 with a plugins
\* folder, its unit stopped or running.
InitPlugin ==
    /\ dirs = [mc1 |-> Installed, mc2 |-> NoDir]
    /\ jars = Cached({"vanilla:1"})
    /\ units \in {[mc1 |-> [NoUnit EXCEPT !.ActiveState = a], mc2 |-> NoUnit] :
                     a \in {"inactive", "active"}}
    /\ plugins \in {[mc1 |-> d, mc2 |-> NoPlugins] : d \in PluginDirs}
    /\ HostIdle
    /\ PropsIdle

NextPlugin ==
    \/ InstallBegin
    \/ InstallCheck
    \/ InstallCopy
    \/ InstallRestart
    \/ InstallAuto
    \/ UninstallBegin
    \/ UninstallCheck
    \/ UninstallResolve
    \/ UninstallPrompt
    \/ UninstallUnlink
    \/ NssPersist
    \/ NssNotify
    \/ SetStatusCall
    \/ SetStatusPoll
    \/ SetStatusCheck
    \/ SdDispatch
    \/ SdSettle

SpecPlugin == InitPlugin /\ [][NextPlugin]_vars

\* exec on an installed instance mc1 whose unit is stopped or running.
InitExec ==
    /\ dirs = [mc1 |-> Installed, mc2 |-> NoDir]
    /\ jars = Cached({"vanilla:1"})
    /\ units \in {[mc1 |-> [NoUnit EXCEPT !.ActiveState = a], mc2 |-> NoUnit] :
                     a \in {"inactive", "active"}}
    /\ HostIdle
    /\ NoPluginDirs
    /\ PropsIdle

NextExec ==
    \/ ExecBegin
    \/ ExecCheck
    \/ ExecPoll

SpecExec == InitExec /\ [][NextExec]_vars

\* main run again and again with every sub-command, the host left alone.
InitMain ==
    /\ dirs = [mc1 |-> Installed, mc2 |-> NoDir]
    /\ jars = Cached({"vanilla:1"})
    /\ units = [n \in Names |-> NoUnit]
    /\ HostIdle
    /\ NoPluginDirs
    /\ PropsIdle

NextMain ==
    \/ MainBegin
    \/ MainElevate
    \/ MainFunc

SpecMain == InitMain /\ [][NextMain]_vars

\* create up to the end of its pre-start probe, the probe taken one poll at
\* a time with the server process running beside it.
InitPreStart ==
    /\ dirs = [n \in Names |-> NoDir]
    /\ jars = NoJars
    /\ units = [n \in Names |-> NoUnit]
    /\ HostIdle
    /\ NoPluginDirs
    /\ PropsIdle

NextPreStart ==
    \/ CreateBegin
    \/ CreateExists
    \/ CreateDirs
    \/ CreatePull
    \/ CreateSymlink
    \/ PreStartSpawn
    \/ PreStartPoll
    \/ ServerWritesEula
    \/ ServerExits

SpecPreStart == InitPreStart /\ [][NextPreStart]_vars

\* create, update and pull in any order over one jar cache: mc1 is
\* installed and runs the cached vanilla:0, mc2 does not exist.
InitCache ==
    /\ dirs = [mc1 |-> [Installed EXCEPT !.jar = OldTag], mc2 |-> NoDir]
    /\ jars = Cached({OldTag})
    /\ units \in {[mc1 |-> [NoUnit EXCEPT !.ActiveState = a], mc2 |-> NoUnit] :
                     a \in {"inactive", "active"}}
    /\ HostIdle
    /\ NoPluginDirs
    /\ PropsIdle

NextCache ==
    \/ CreateBegin
    \/ CreateExists
    \/ CreateDirs
    \/ CreatePull
    \/ CreateSymlink
    \/ CreatePreStart
    \/ CreateEula
    \/ CreateConfig
    \/ CreateDone
    \/ UpdateBegin
    \/ UpdatePull
    \/ UpdateSymlink
    \/ UpdateDecide
    \/ PullBegin
    \/ PullFetch
    \/ PullReturn
    \/ NssPersist
    \/ NssNotify
    \/ SetStatusCall
    \/ SetStatusPoll
    \/ SetStatusCheck
    \/ SdDispatch
    \/ SdSettle

SpecCache == InitCache /\ [][NextCache]_vars

\* get_jar_path and get_type_id over every type id of two or three
\* components.
InitJarPath ==
    /\ dirs = [n \in Names |-> NoDir]
    /\ jars = NoJars
    /\ units = [n \in Names |-> NoUnit]
    /\ HostIdle
    /\ NoPluginDirs
    /\ PropsIdle

NextJarPath ==
    \/ JarPathBegin
    \/ GetJarPath
    \/ GetTypeId

SpecJarPath == InitJarPath /\ [][NextJarPath]_vars

\* main from the parsed arguments of any sub-command to the end of its
\* handler.
InitElev ==
    /\ dirs = [mc1 |-> Installed, mc2 |-> NoDir]
    /\ jars = Cached({"vanilla:1"})
    /\ units = [n \in Names |-> NoUnit]
    /\ HostIdle
    /\ NoPluginDirs
    /\ PropsIdle

NextElev ==
    \/ ParseArgs
    \/ MainElevate
    \/ MainFunc

SpecElev == InitElev /\ [][NextElev]_vars

\* main for any sub-command, with the keyword arguments filtered for its
\* handler.
InitArgs ==
    /\ dirs = [mc1 |-> Installed, mc2 |-> NoDir]
    /\ jars = Cached({"vanilla:1"})
    /\ units = [n \in Names |-> NoUnit]
    /\ HostIdle
    /\ NoPluginDirs
    /\ PropsIdle

NextArgs ==
    \/ ParseArgs
    \/ MainElevate
    \/ FilterArgs
    \/ CallFunc

SpecArgs == InitArgs /\ [][NextArgs]_vars

\* Nested run_as blocks in a process started at any of the permission
\* levels, with the host left alone.
InitPerms ==
    /\ dirs = [n \in Names |-> NoDir]
    /\ jars = NoJars
    /\ units = [n \in Names |-> NoUnit]
    /\ inv = DefaultInv
    /\ pc = "idle"
    /\ loc = DefaultLoc
    /\ result = "none"
    /\ events = <<>>
    /\ snap = dirs
    /\ prev = "-"
    /\ cred \in {apply_permlevel(p) : p \in Permlevels}
    /\ PropsIdle
    /\ NoPluginDirs

NextPerms ==
    \/ ProcessStart
    \/ RunAsEnter
    \/ RunAsRaise
    \/ RunAsExit

SpecPerms == InitPerms /\ [][NextPerms]_vars

\* ------------------------------------------------------------------------
\* Properties checked
\* ------------------------------------------------------------------------
CreateRan == inv.cmd = "create" /\ pc # "idle"

\* C1: create on an instance name whose directory already exists fails with
\* FileExistsError before any other step has run, and the directory (like
\* every other instance directory) is exactly as it was.
C1_CreateExistingFails ==
    (CreateRan /\ snap[inv.instance].exists) =>
        /\ events = <<>>
        /\ dirs = snap
        /\ pc \in {"create_exists", "done"}
        /\ pc = "done" => result = "FileExistsError"

\* A finished create on the name of a fully installed instance.
C1_Witness ==
    /\ CreateRan /\ pc = "done"
    /\ snap[inv.instance].exists
    /\ snap[inv.instance].eula = "true"
    /\ snap[inv.instance].jar # NoJar
    /\ result = "FileExistsError"

\* C2: when the operator declines the EULA, the instance directory does not
\* exist after create has returned.
C2_DeclinedEulaRollsBack ==
    (CreateRan /\ pc = "done" /\ result = "ValueError") =>
        ~dirs[inv.instance].exists

\* C3: whenever create ends unsuccessfully after it made the directory, the
\* instance directory does not exist afterwards.
C3_NoPartialInstance ==
    (CreateRan /\ pc = "done" /\ result # "ok"
        /\ \E k \in 1..Len(events) : events[k] = "mkdir") =>
        ~dirs[inv.instance].exists

StatusReported == inv.cmd \in StatusCmds /\ pc = "done" /\ result = "ok"

\* C4: the reconciled status is never "running" when the unit it was read
\* from was not active, and never a stopped status ("dead", "failed") when
\* that unit was active, whatever the probe answered.
C4_StatusMonotone ==
    StatusReported =>
        /\ loc.seen # "active" => loc.report # "running"
        /\ loc.seen = "active" => loc.report \notin {"dead", "failed"}

\* The probe was answered (by whatever listens on the port) for an instance
\* whose unit is inactive, and the report is the stopped status.
C4_Witness ==
    /\ StatusReported
    /\ loc.seen = "inactive"
    /\ loc.proto >= 0
    /\ loc.report = "dead"

\* C5: ls, status and inspect report "starting" exactly when the unit was
\* active and the probe failed, and "running" when the unit was active and
\* the probe was answered.
C5_StartingIffActiveUnanswered ==
    StatusReported =>
        /\ loc.report = "starting" <=> (loc.seen = "active" /\ loc.proto < 0)
        /\ (loc.seen = "active" /\ loc.proto >= 0) => loc.report = "running"

\* ls shows an active unit whose probe failed as starting.
C5_Witness ==
    /\ StatusReported
    /\ inv.cmd = "ls"
    /\ loc.seen = "active"
    /\ loc.proto < 0
    /\ loc.report = "starting"

\* C6: every key of the file that the update does not name keeps its value
\* across set_properties.
C6_UnnamedKeysKept ==
    [][\A k \in DictKeys(get_properties(pfile)) \ DictKeys(pupd'.dict) :
          /\ k \in DictKeys(get_properties(pfile'))
          /\ DictVal(get_properties(pfile'), k) = DictVal(get_properties(pfile), k)]_vars

\* An update of B alone was applied to a file that held A=A: both are there.
C6_Witness ==
    /\ pupd.applied
    /\ DictKeys(pupd.dict) = {<<"B">>}
    /\ <<"A">> \in DictKeys(get_properties(pfile))
    /\ DictVal(get_properties(pfile), <<"A">>) = <<"A">>
    /\ DictVal(get_properties(pfile), <<"B">>) = DictVal(pupd.dict, <<"B">>)

\* C7: applying the update that was just applied once more leaves the file
\* as it is.
C7_SetPropertiesIdempotent ==
    pupd.applied => set_properties(pfile, pupd.dict) = pfile

\* A two-key update was applied to a file that now holds a third key too.
C7_Witness ==
    /\ pupd.applied
    /\ Len(pupd.dict) = 2
    /\ Len(pfile.lines) = 3

\* configure has staged its copies and is about to decide on the restart.
ConfigureStaged == inv.cmd = "config" /\ pc = "cfg_decide"

\* C8: a staged copy whose hash equals its original's is not swapped in:
\* when staging is over no entry of paths names such a copy, so that a
\* configure whose copies all equal their originals has nothing to swap and
\* nothing to restart for.
C8_UnchangedCopyDiscarded ==
    ConfigureStaged =>
        \A i \in 1..Len(loc.paths) :
            get_file_hash(TmpOf(dirs[inv.instance], loc.paths[i][2]).file)
                # get_file_hash(GetTarget(dirs[inv.instance], loc.paths[i][1]))

RenameRan == inv.cmd = "rename" /\ pc = "done"

RemoveRan == inv.cmd = "rm" /\ pc = "done"

\* The guard of rename and remove was evaluated in this invocation.
GuardSeen == loc.seen # "-"

\* C9: rename and remove end with the precondition error, all directories
\* as they were, when the unit was active or enabled at the check; when it
\* was inactive and disabled, rename (of an existing instance to a free
\* name) moves the directory and remove (forced or confirmed) deletes it.
C9_RenameRemoveGuard ==
    /\ ((RenameRan \/ RemoveRan) /\ GuardSeen
            /\ (loc.seen = "active" \/ loc.seen_enabled)) =>
          (result = "OSError" /\ dirs = snap /\ events = <<>>)
    /\ (RenameRan /\ GuardSeen /\ loc.seen = "inactive" /\ ~loc.seen_enabled
            /\ snap[inv.instance].exists /\ ~snap[inv.new_name].exists) =>
          /\ result = "ok"
          /\ dirs[inv.new_name] = snap[inv.instance]
          /\ ~dirs[inv.instance].exists
    /\ (RemoveRan /\ GuardSeen /\ loc.seen = "inactive" /\ ~loc.seen_enabled
            /\ loc.do_remove) =>
          /\ result = "ok"
          /\ dirs[inv.instance] = NoDir

\* A rename refused for an inactive but enabled unit.
C9_Witness ==
    /\ RenameRan /\ GuardSeen
    /\ loc.seen = "inactive" /\ loc.seen_enabled
    /\ result = "OSError"

\* rename mc1 mc2, with mc1 present and mc2 free, right after a plain stop
\* of mc1 that succeeded.
RenameAfterStop ==
    /\ RenameRan
    /\ inv.instance = "mc1" /\ inv.new_name = "mc2"
    /\ prev = "mc1"
    /\ snap["mc1"].exists /\ ~snap["mc2"].exists

Renamed == result = "ok" /\ dirs["mc2"].exists /\ ~dirs["mc1"].exists

\* C10 as stated: from any state with mc1 active, rename mc1 mc2 fails, and
\* after a plain stop of mc1 has succeeded the same rename succeeds.
C10_AsStated ==
    /\ (RenameRan /\ GuardSeen /\ loc.seen = "active") => result # "ok"
    /\ RenameAfterStop => Renamed

\* C10 amended: after the plain stop the rename succeeds when mc1 is not
\* enabled, and still fails when it is.
C10_RenameAfterStop ==
    /\ (RenameRan /\ GuardSeen /\ loc.seen = "active") => result # "ok"
    /\ (RenameAfterStop /\ ~units["mc1"].enabled) => Renamed
    /\ (RenameAfterStop /\ units["mc1"].enabled) => (result = "OSError" /\ dirs = snap)

C10_Witness == RenameAfterStop /\ Renamed

\* C11: in update with restart allowed the binary reference is swapped only
\* after the unit was stopped: no swap happens while the unit is active.
C11_SwapOnlyWhenStopped ==
    [][(pc = "update_symlink" /\ pc' = "update_decide" /\ inv.restart)
          => ~is_active(units[inv.instance])]_vars

UpdateRan == inv.cmd = "update" /\ pc = "done" /\ "symlink" \in Range(events)

\* C12: an update that swapped the binary issued the notified restart only
\* if the unit was active and restart was allowed; otherwise it issued no
\* unit action, the instance points at the new binary, the command
\* succeeded and the message asks for a manual restart.
C12_UpdateRestartsOnlyActive ==
    UpdateRan =>
        /\ events # <<"symlink">> => (loc.seen = "active" /\ inv.restart)
        /\ ~(loc.seen = "active" /\ inv.restart) =>
              /\ events = <<"symlink">>
              /\ dirs[inv.instance].jar = loc.jar
              /\ result = "ok"
              /\ loc.report = "Manual restart required."

\* update -r of a stopped instance ended without a unit action.
C12_Witness ==
    /\ UpdateRan
    /\ inv.restart
    /\ loc.seen = "inactive"
    /\ result = "ok"
    /\ events = <<"symlink">>

\* TRUE when a precedes b in the sequence s.
Precedes(s, a, b) ==
    \E i, j \in DOMAIN s : i < j /\ s[i] = a /\ s[j] = b

NotifiedCmd == inv.cmd \in {"start", "stop", "restart"}

\* C13: when a stop or restart found the unit active and the server
\* answering, the broadcast was sent before the init-system action was
\* invoked; a start sends no broadcast.
C13_BroadcastBeforeAction ==
    /\ (NotifiedCmd /\ inv.cmd # "start" /\ loc.answering /\ pc \in {"set_status", "ss_poll"}) =>
          "broadcast" \in Range(events)
    /\ (NotifiedCmd /\ inv.cmd # "start" /\ loc.answering /\ inv.cmd \in Range(events)) =>
          Precedes(events, "broadcast", inv.cmd)
    /\ (NotifiedCmd /\ "broadcast" \in Range(events) /\ inv.cmd \in Range(events)) =>
          Precedes(events, "broadcast", inv.cmd)
    /\ (NotifiedCmd /\ inv.cmd = "start") => "broadcast" \notin Range(events)

\* A stop of an answering server that broadcast and then stopped the unit.
C13_Witness ==
    /\ inv.cmd = "stop" /\ pc = "done" /\ result = "ok"
    /\ loc.answering
    /\ events = <<"broadcast", "stop">>

\* C14: a stop or restart always gets as far as invoking the init-system
\* action, whether or not the notice could be delivered.
C14_NoticeFailureSwallowed ==
    (NotifiedCmd /\ inv.cmd # "start" /\ pc = "done") => inv.cmd \in Range(events)

SetStatusReturns == pc = "ss_check" /\ pc' # pc /\ result' # "OSError"

\* C16: when set_status returns normally the unit is neither activating nor
\* deactivating, and it is down after stop and active after start or
\* restart.
C16_ReturnsSettled ==
    [][SetStatusReturns =>
          IF loc.action = "stop"
          THEN units[inv.instance].ActiveState \in {"inactive", "failed"}
          ELSE units[inv.instance].ActiveState = "active"]_vars

\* C17: set_status gives up waiting after a bounded number of polls: it
\* never gets to its MaxPolls-th poll of a unit that stays in transition.
C17_BoundedWait ==
    pc = "ss_poll" => loc.polls < MaxPolls

\* The files configure has swapped into place so far.
Swapped == Range(events) \cap Targets

\* C20: in a configure that restarts, no file is swapped while the stop is
\* under way or after it failed, every swap comes after the stop, and when
\* the start is issued every staged file has been swapped.
C20_StopSwapStart ==
    (inv.cmd = "config" /\ loc.do_restart) =>
        /\ (loc.action = "stop" /\ pc # "cfg_swap") =>
              (Swapped = {} /\ loc.paths # <<>>)
        /\ \A t \in Swapped : Precedes(events, "stop", t)
        /\ "start" \in Range(events) =>
              /\ loc.paths = <<>>
              /\ Swapped # {}
              /\ \A t \in Swapped : Precedes(events, t, "start")

\* A configure -r of a running instance that stopped it, swapped both
\* files and started it again.
C20_Witness ==
    /\ inv.cmd = "config" /\ loc.do_restart
    /\ pc = "done" /\ result = "ok"
    /\ Swapped = Targets
    /\ "start" \in Range(events)

\* C18: every mutating call to the init system was made with root as the
\* effective uid of the process.
C18_UnitCallsAsRoot ==
    \A i \in DOMAIN cred.calls : cred.calls[i][2] = Root

C21_ReaderSeesOldOrNew ==
    inv.cmd = "config" =>
        \A t \in Targets :
            \/ GetTarget(dirs[inv.instance], t) = GetTarget(snap[inv.instance], t)
            \/ t \in Range(events)

\* uninstall has resolved its search terms.
UninstallResolved ==
    inv.cmd = "uninstall" /\ pc \notin {"idle", "unin_check", "unin_resolve"}

\* C22: the set uninstall resolves is the union over all search terms of
\* the installed plugin files whose name contains the term, letter case
\* aside: every term contributes its matches.
C22_UninstallUnionOfTerms ==
    UninstallResolved =>
        loc.resolved_names =
            {x \in loc.listed :
                /\ suffix(x) = JarSuffix
                /\ \E i \in 1..Len(inv.plugins) :
                      Contains(lower(x), lower(inv.plugins[i]))}

\* What the auto-upgrade pass of an install removed: the files it found in
\* the folder that are there no longer.
AutoRemoved == loc.listed \ plugins[inv.instance].files

\* C23: auto_uninstall removes only files of the plugin folder that are not
\* among the newly installed names and are a close match of a newly
\* installed name, at most two for each new name, and only after the
\* operator confirmed (install never forces it).
C23_AutoUninstallOnlySimilarOld ==
    inv.cmd = "install" =>
        /\ \A r \in AutoRemoved :
              /\ r \notin loc.installed
              /\ suffix(r) = JarSuffix
              /\ \E w \in loc.installed : is_close(r, w)
        /\ \E f \in [AutoRemoved -> loc.installed] :
              /\ \A r \in AutoRemoved : is_close(r, f[r])
              /\ \A w \in loc.installed :
                    Cardinality({r \in AutoRemoved : f[r] = w}) <= 2
        /\ loc.installed \subseteq plugins[inv.instance].files
        /\ AutoRemoved # {} => loc.answer = "y"

\* Two of three old versions are removed and the unrelated plugin stays.
C23_Witness ==
    /\ inv.cmd = "install"
    /\ pc = "done"
    /\ {Ab0Jar, Ab1Jar, Ab3Jar, XyzJar} \subseteq loc.listed
    /\ Cardinality(AutoRemoved) = 2
    /\ XyzJar \in plugins[inv.instance].files

\* install has copied all its sources, or uninstall has resolved some
\* plugins and was told to go ahead.
PluginChangeDue ==
    \/ inv.cmd = "install" /\ loc.todo = {} /\ "install" \in Range(events)
    \/ /\ inv.cmd = "uninstall"
       /\ loc.resolved_names # {}
       /\ inv.force \/ loc.answer = "y"

UnitActions == {"start", "stop", "restart"}

\* C24: install and uninstall with restart requested on an instance that
\* is not active issue no unit action: the command ends successfully with
\* the plugin files added or removed and the unit still not active.
C24_InactiveNoUnitAction ==
    (/\ PluginChangeDue
     /\ inv.restart
     /\ loc.seen = "inactive"
     /\ pc = "done")
        => /\ result = "ok"
           /\ Range(events) \cap UnitActions = {}
           /\ ~is_active(units[inv.instance])
           /\ inv.cmd = "install" =>
                  loc.installed \subseteq plugins[inv.instance].files
           /\ inv.cmd = "uninstall" =>
                  loc.resolved_names \cap plugins[inv.instance].files = {}

FileChanges == {"install", "unlink", "auto_unlink"}

\* C25: install and uninstall with restart requested on an active instance
\* stop the instance before any plugin file is added or removed and start
\* it again only after the last file change, the removals of the
\* auto-upgrade pass included: every file change comes after a stop and
\* before any start.
C25_StopChangeStart ==
    (inv.cmd \in {"install", "uninstall"} /\ inv.restart /\ loc.seen = "active")
        => \A i \in 1..Len(events) :
              events[i] \in FileChanges =>
                  /\ \E j \in 1..(i - 1) : events[j] \in {"stop", "restart"}
                  /\ \A j \in 1..(i - 1) : events[j] \notin {"start", "restart"}

\* C26: the log polling of mc_exec ends after at most max_retries polls
\* whatever the log does, also when it keeps receiving lines.
C26_PollsBounded == inv.cmd = "exec" => loc.polls <= max_retries

\* main has exited after the handler ran.
HandlerRan == pc = "exited" /\ "func" \in Range(events)

\* C27: main exits with status 0 exactly when the operation returned
\* normally; when it raised an error and verbose is off, main prints the
\* one line "Unable to <action>: <reason>" and exits with 1; an interrupt
\* during the operation exits with 130.
C27_ExitStatus ==
    pc = "exited" =>
        /\ loc.status = 0 <=> (HandlerRan /\ result = "ok")
        /\ (HandlerRan /\ result \in Exceptions /\ ~inv.verbose) =>
               /\ loc.status = 1
               /\ loc.printed = << <<"Unable to ", err_msg(inv), ": ", result>> >>
        /\ (HandlerRan /\ result = "KeyboardInterrupt") => loc.status = 130

\* rm of an instance that does not exist, without verbose.
C27_Witness ==
    /\ HandlerRan
    /\ result = "FileNotFoundError"
    /\ ~inv.verbose
    /\ inv.cmd = "rm"
    /\ loc.status = 1
    /\ Len(loc.printed) = 1
    /\ loc.printed[1][1] = "Unable to "

\* C28: the pre-start probe of create runs the server for at most the
\* timeout, asks it once to terminate as soon as the EULA file is there,
\* kills it when the timeout elapses with the process still running, and
\* reports success only when the process ended before the timeout.
C28_PreStartProbe ==
    (inv.cmd = "create" /\ pc \in {"pre_start_loop", "create_eula"} /\ loc.proc # "-")
        => /\ loc.i <= kill_sec * fps + 1
           /\ loc.sigterm <= 1
           /\ loc.marker_seen => loc.sigterm = 1
           /\ pc = "create_eula" => loc.proc # "running"
           /\ loc.success => (loc.proc = "exited" /\ loc.sigkill = 0)

\* C29: an update whose tag cannot be resolved fails, without falling back
\* to a cached binary, and leaves the binary reference of the instance as
\* it was.
C29_UpdateUnresolvedIsFatal ==
    (inv.cmd = "update" /\ loc.resolved = "lookup")
        => /\ pc = "done"
           /\ result \notin {"ok", "running"}
           /\ dirs[inv.instance].jar = snap[inv.instance].jar

\* C30: create, update and pull never change or delete the content of a
\* file that is in the jar cache: a pull of a cached tag downloads nothing,
\* and update swaps the symlink without touching the file it pointed to.
C30_CachedJarsImmutable ==
    [][\A t \in Tags : jars[t] # NoJar => jars'[t] = jars[t]]_vars

\* An update has found its tag in the cache, downloaded nothing and
\* swapped the symlink of mc1 away from the cached vanilla:0, whose file
\* is as it was.
C30_Witness ==
    /\ inv.cmd = "update"
    /\ pc = "done"
    /\ result = "ok"
    /\ loc.resolved = "ok"
    /\ loc.pulled = "cached"
    /\ "symlink" \in Range(events)
    /\ snap[inv.instance].jar = OldTag
    /\ dirs[inv.instance].jar = "vanilla:1"
    /\ jars[OldTag] = "jarA"

EscalationApplies(args, elevation) ==
    /\ elevation.change_to # "-"
    /\ \/ elevation.on_cond = {}
       \/ \E kv \in elevation.on_cond : args[kv[1]] = kv[2]

\* C32: the handler of every sub-command starts with the real identity of
\* the change_to user when the escalation applies and of the default user
\* otherwise; an escalation without change_fully leaves the effective
\* identity with the default user, so that the handler starts with
\* effective root only under change_fully.
C32_HandlerIdentity ==
    pc = "main_func" =>
        LET elevation == Elevation(inv.cmd)
            applies == EscalationApplies(inv, elevation)
        IN /\ cred.ruid = (IF applies THEN elevation.change_to ELSE elevation.default)
           /\ cred.rgid = cred.ruid
           /\ (applies /\ ~elevation.change_fully) =>
                 (cred.euid = elevation.default /\ cred.egid = elevation.default)
           /\ ~(applies /\ ~elevation.change_fully) =>
                 (cred.euid = cred.ruid /\ cred.egid = cred.rgid)
           /\ cred.euid = Root => (applies /\ elevation.change_fully)

\* update -r is about to run its handler as root with the effective
\* identity of the server user.
C32_Witness ==
    /\ pc = "main_func"
    /\ inv.cmd = "update"
    /\ inv.restart
    /\ cred.ruid = Root
    /\ cred.euid = "server_user"

\* C33: in create, eula=true is written, the property and memory
\* overrides are applied and the instance is started only after the
\* operator answered "true"; any answer other than true or false leads
\* back to the prompt; after "false" none of these effects happened.
C33_EulaGate ==
    (inv.cmd = "create" /\ pc # "idle" /\ ~snap[inv.instance].exists) =>
        LET d == dirs[inv.instance]
            effects == \/ d.eula = "true"
                       \/ d.exists /\ d.props \notin {NoFile, GeneratedProps}
                       \/ d.env # NoFile
                       \/ units[inv.instance] # NoUnit
                       \/ "configured" \in Range(events)
        IN /\ effects => loc.answer = "true"
           /\ loc.answer = "other" => pc = "create_eula"
           /\ loc.answer = "false" =>
                 (pc = "done" /\ result = "ValueError" /\ ~effects)

\* A create with overrides and -s went on to start the instance after an
\* answer of "true".
C33_Witness ==
    /\ inv.cmd = "create"
    /\ pc = "done"
    /\ result = "ok"
    /\ inv.start
    /\ inv.memory # <<>>
    /\ inv.properties # <<>>
    /\ loc.answer = "true"
    /\ dirs[inv.instance].eula = "true"
    /\ dirs[inv.instance].env # NoFile
    /\ units[inv.instance].ActiveState = "active"

\* C34: for every sub-command the call of the handler has every parameter
\* that has no default, and every parsed option other than the bookkeeping
\* fields is passed on as a parameter of the handler.
C34_ArgsMatchSignature ==
    /\ pc = "main_call" =>
          /\ Signature(inv.cmd).required \subseteq loc.safe_kwargs
          /\ ParsedArgs(inv.cmd) \ Bookkeeping \subseteq loc.safe_kwargs
    /\ pc = "exited" => result # "TypeError"

\* stop is about to call notified_set_status with the action taken from
\* the sub-command name and both of its options.
C34_Witness ==
    /\ pc = "main_call"
    /\ inv.cmd = "stop"
    /\ loc.safe_kwargs = {"instance", "action", "message", "persistent"}

\* set_status leaves its final comparison in this step, either way.
SetStatusLeaves == pc = "ss_check" /\ pc' # pc

\* The unit has no job queued and is in no transition.
Settled(unit) ==
    /\ unit.job = "none"
    /\ unit.ActiveState \notin {"activating", "deactivating"}

\* C35: set_status raises its "failed" error, or returns, only on a settled
\* unit: never while the job it queued has yet to begin or the transition
\* is still under way.
C35_OutcomeOnSettledUnit ==
    [][SetStatusLeaves => Settled(units[inv.instance])]_vars

\* A start or stop with the persistent flag whose set_status was reached
\* and raised.
PersistentActionFailed ==
    /\ inv.cmd \in {"start", "stop"} /\ inv.persistent
    /\ pc = "done" /\ result = "OSError"
    /\ inv.action \in Range(events)

\* C36: when the unit action of a persistent start or stop fails, the
\* unit's enabled flag is what it was before the operation
\* (loc.was_enabled, taken on entry to notified_set_status).
C36_FailedActionKeepsEnabled ==
    PersistentActionFailed =>
        units[inv.instance].enabled = loc.was_enabled

\* ------------------------------------------------------------------------
\* storage.remove_jar
\* ------------------------------------------------------------------------
\* rmj TYPEID: check_strict_type_id lets through any <type>:<version> and
\* the word "all".
RemoveJarBegin ==
    \E src \in Tags \cup {"all"}, f \in BOOLEAN :
        /\ Begin([DefaultInv EXCEPT !.cmd = "rmj", !.source = src, !.force = f],
                 "rmj_check")
        /\ UNCHANGED <<dirs, jars, units, pfile, pupd, plugins>>

\* get_real_abspath(server_jar) == del_path for some instance: its
\* server.jar is a symlink to the file of this tag.
Associated(tag) == \E n \in Names : dirs[n].exists /\ dirs[n].jar = tag

\* The checks ahead of the prompt. A single type id must be cached and
\* must not be linked by any instance; "all" only asks for the cache
\* directory to exist (one that holds no file may or may not be there).
RemoveJarCheck ==
    /\ pc = "rmj_check"
    /\ IF inv.source # "all"
       THEN IF jars[inv.source] = NoJar
            THEN Raise("FileNotFoundError")
            ELSE IF Associated(inv.source)
                 THEN Raise("OSError")
                 ELSE Goto("rmj_prompt")
       ELSE \/ Goto("rmj_prompt")
            \/ jars = NoJars /\ Raise("FileNotFoundError")
    /\ UNCHANGED <<dirs, jars, units, inv, loc, events, snap, prev, pfile, pupd, cred, plugins>>

\* force or visuals.bool_selector(msg)
RemoveJarPrompt ==
    /\ pc = "rmj_prompt"
    /\ IF inv.force
       THEN Goto("rmj_delete") /\ loc' = [loc EXCEPT !.do_remove = TRUE]
       ELSE \E ans \in {"y", "n", "other", "interrupt"} :
               CASE ans = "y" ->
                      Goto("rmj_delete") /\ loc' = [loc EXCEPT !.do_remove = TRUE]
                 [] ans = "n" ->
                      Goto("rmj_delete") /\ loc' = [loc EXCEPT !.do_remove = FALSE]
                 [] ans = "other" ->
                      Goto("rmj_prompt") /\ UNCHANGED loc
                 [] ans = "interrupt" ->
                      Raise("KeyboardInterrupt") /\ UNCHANGED loc
    /\ UNCHANGED <<dirs, jars, units, inv, events, snap, prev, pfile, pupd, cred, plugins>>

\* del_path.unlink() for one type id, remove_all(del_path) on the whole
\* cache directory for "all".
RemoveJarDelete ==
    /\ pc = "rmj_delete"
    /\ IF ~loc.do_remove
       THEN Finish /\ UNCHANGED <<jars, events>>
       ELSE /\ jars' = IF inv.source = "all" THEN NoJars
                       ELSE [jars EXCEPT ![inv.source] = NoJar]
            /\ events' = Append(events, "removed")
            /\ Finish
    /\ UNCHANGED <<dirs, units, inv, loc, snap, prev, pfile, pupd, cred, plugins>>

\* Instances as create leaves them, each linked to a cached file, and a
\* cache that holds at least the linked files.
InitRmJar ==
    /\ dirs \in {[mc1 |-> [Installed EXCEPT !.jar = OldTag], mc2 |-> d] :
                    d \in {NoDir, Installed}}
    /\ jars \in {Cached(ts) : ts \in SUBSET Tags}
    /\ \A n \in Names : dirs[n].exists => jars[dirs[n].jar] # NoJar
    /\ units = [n \in Names |-> NoUnit]
    /\ HostIdle
    /\ NoPluginDirs
    /\ PropsIdle

NextRmJar ==
    \/ RemoveJarBegin
    \/ RemoveJarCheck
    \/ RemoveJarPrompt
    \/ RemoveJarDelete
    \/ PullBegin
    \/ PullFetch
    \/ PullReturn

SpecRmJar == InitRmJar /\ [][NextRmJar]_vars

\* Every instance's server.jar symlink points to a file the cache holds.
LinksResolve ==
    \A n \in Names :
        (dirs[n].exists /\ dirs[n].jar # NoJar) => jars[dirs[n].jar] # NoJar

\* C37: after a remove_jar call, for one type id or for "all", every
\* instance's server binary symlink still points to an existing cached
\* file.
C37_LinksSurviveRemoveJar ==
    (inv.cmd = "rmj" /\ pc = "done") => LinksResolve

\* ------------------------------------------------------------------------
\* Two invocations of mcctl at the same time
\* ------------------------------------------------------------------------
\* Each invocation is a process of its own with its own arguments, locals
\* and position; the instance directories, the jar cache and the units are
\* shared. pc, inv, loc, result, events, cred and snap are those of the
\* process that takes the next step, loc.other keeps the same for the
\* process that waits.
Context ==
    [pc |-> pc, inv |-> inv, result |-> result, events |-> events,
     cred |-> cred, snap |-> snap, loc |-> [loc EXCEPT !.other = NoContext]]

\* An invocation right after main() called its handler.
Invoked(i, first, self) ==
    [pc |-> first, inv |-> i, result |-> "running", events |-> <<>>,
     cred |-> apply_permlevel(get_permlevel(i, Elevation(i.cmd))),
     snap |-> dirs, loc |-> [DefaultLoc EXCEPT !.self = self]]

\* The two invocations at their start, a the one to step first.
Both(a, b) ==
    /\ pc = a.pc /\ inv = a.inv /\ result = a.result /\ events = a.events
    /\ cred = a.cred /\ snap = a.snap
    /\ loc = [a.loc EXCEPT !.other = b]

\* The operating system lets the other process run.
Switch ==
    /\ loc.other # NoContext
    /\ pc' = loc.other.pc
    /\ inv' = loc.other.inv
    /\ result' = loc.other.result
    /\ events' = loc.other.events
    /\ cred' = loc.other.cred
    /\ snap' = loc.other.snap
    /\ loc' = [loc.other.loc EXCEPT !.other = Context]
    /\ UNCHANGED <<dirs, jars, units, prev, pfile, pupd, plugins>>

\* The name both invocations of create are given.
NewName == "mc2"

TwoCreates ==
    {[DefaultInv EXCEPT !.cmd = "create", !.instance = NewName,
                        !.source = "vanilla:1", !.memory = m, !.properties = p] :
        m \in MemoryArgs, p \in PropertyArgs}

InitRace ==
    /\ dirs = [mc1 |-> Installed, mc2 |-> NoDir]
    /\ jars = Cached({"vanilla:1"})
    /\ units = [n \in Names |-> NoUnit]
    /\ prev = "-"
    /\ NoPluginDirs
    /\ PropsIdle
    /\ \E i1 \in TwoCreates, i2 \in TwoCreates :
          Both(Invoked(i1, "create_exists", "p1"),
               Invoked(i2, "create_exists", "p2"))

NextRace ==
    \/ CreateExists
    \/ CreateDirs
    \/ CreatePull
    \/ CreateSymlink
    \/ CreatePreStart
    \/ CreateEula
    \/ CreateConfig
    \/ CreateDone
    \/ Switch

SpecRace == InitRace /\ [][NextRace]_vars

\* An invocation of create that went past the existence check.
Staging(c) == c.pc # "create_exists" /\ c.result # "FileExistsError"

\* An invocation of create that wrote its overrides into the directory.
Configured(c) == "configured" \in Range(c.events)

\* C38: of two concurrent create invocations with one new name at most one
\* goes past the existence check, so one of them ends with "already
\* exists", and the directory is never configured by both.
C38_OneCreationWins ==
    /\ ~(Staging(Context) /\ Staging(loc.other))
    /\ ~(Configured(Context) /\ Configured(loc.other))

\* A rename or remove of mc1 beside a start of mc1, from every state of
\* its unit.
Target == "mc1"

Movers ==
    {[DefaultInv EXCEPT !.cmd = "rename", !.instance = Target,
                        !.new_name = NewName]}
    \cup {[DefaultInv EXCEPT !.cmd = "rm", !.instance = Target, !.force = f] :
             f \in BOOLEAN}

Starters ==
    {[DefaultInv EXCEPT !.cmd = "start", !.instance = Target,
                        !.action = "start", !.persistent = p] : p \in BOOLEAN}

FirstStep(i) ==
    CASE i.cmd = "rename" -> "rename_check"
      [] i.cmd = "rm" -> "rm_check"
      [] i.cmd = "start" -> "nss_enter"

ActiveStates == {"inactive", "activating", "active", "deactivating", "failed"}

InitRaceStart ==
    /\ dirs = [mc1 |-> Installed, mc2 |-> NoDir]
    /\ jars = Cached({"vanilla:1"})
    /\ units \in {[mc1 |-> [NoUnit EXCEPT !.ActiveState = a, !.enabled = e],
                   mc2 |-> NoUnit] : a \in ActiveStates, e \in BOOLEAN}
    /\ prev = "-"
    /\ NoPluginDirs
    /\ PropsIdle
    /\ \E m \in Movers, s \in Starters :
          \/ Both(Invoked(m, FirstStep(m), "p1"), Invoked(s, FirstStep(s), "p2"))
          \/ Both(Invoked(s, FirstStep(s), "p2"), Invoked(m, FirstStep(m), "p1"))

NextRaceStart ==
    \/ RenameCheck
    \/ RenameMove
    \/ RemoveCheck
    \/ RemovePrompt
    \/ RemoveDelete
    \/ NotifiedEnter
    \/ NssPersist
    \/ SetStatusCall
    \/ SetStatusPoll
    \/ SetStatusCheck
    \/ SdDispatch
    \/ SdSettle
    \/ Switch

SpecRaceStart == InitRaceStart /\ [][NextRaceStart]_vars

\* C39: while a rename or remove runs beside a start of the same instance,
\* the unit is never active, starting or enabled once the instance
\* directory has been renamed away or deleted.
C39_NoLiveUnitWithoutDirectory ==
    ~dirs[Target].exists =>
        /\ units[Target].ActiveState \notin {"active", "activating"}
        /\ ~units[Target].enabled

\* The files a configure is given both to merge into (-p, -m) and to edit.
GivenTwice ==
    {t \in Range(inv.edit_paths) :
        \/ t = "props" /\ inv.properties # <<>>
        \/ t = "env" /\ inv.memory # <<>>}

\* The temporary copies of t this configure has made and not yet moved or
\* removed.
CopiesOf(t) ==
    {r \in dirs[inv.instance].tmp \ snap[inv.instance].tmp : r.of = t}

\* C40: in a configure that is given a file both through properties (or
\* memory) and as an edit path, that file never has more than one
\* temporary copy, and when configure has ended normally no temporary copy
\* is left in the instance directory.
C40_OneCopyMergedAndEdited ==
    (inv.cmd = "config" /\ GivenTwice # {}) =>
        /\ \A t \in GivenTwice : Cardinality(CopiesOf(t)) <= 1
        /\ (pc = "done" /\ result = "ok") =>
              dirs[inv.instance].tmp = snap[inv.instance].tmp

====
